---------------------------- MODULE Spec2Model ----------------------------
(***************************************************************************)
(* The customer-service agent of Project Synapse: the tool functions of    *)
(* tools.py (keyword classification, compensation arithmetic, escalation)  *)
(* and the tool-calling conversation loop that agent_core.py configures.   *)
(*                                                                         *)
(* A Python str is a sequence of one-character strings, so that `in`,      *)
(* lower() and the regular expressions act on characters as in the code.   *)
(* A character outside ASCII is written by its code point ("U+1F4CB").     *)
(***************************************************************************)
EXTENDS Integers, Sequences, FiniteSets, TLC

VARIABLES
    args,           \* the arguments of the call: [tool_input |-> s] when the agent invokes a tool
    tool,           \* the name of the tool function invoked last, "none" before
    result,         \* what that invocation returned
    chat_history    \* the conversation so far: customer messages and tool steps

vars == <<args, tool, result, chat_history>>

----------------------------------------------------------------------------
(* Strings *)

\* the rupee sign U+20B9, one character
RUPEE == "U+20B9"

UpperLetters ==
    <<"A","B","C","D","E","F","G","H","I","J","K","L","M",
      "N","O","P","Q","R","S","T","U","V","W","X","Y","Z">>

LowerLetters ==
    <<"a","b","c","d","e","f","g","h","i","j","k","l","m",
      "n","o","p","q","r","s","t","u","v","w","x","y","z">>

\* str.lower() on one character
LowerChar(c) ==
    IF \E i \in 1..26 : UpperLetters[i] = c
    THEN LowerLetters[CHOOSE i \in 1..26 : UpperLetters[i] = c]
    ELSE c

\* str.lower()
Lower(s) == [i \in 1..Len(s) |-> LowerChar(s[i])]

\* Python's `k in s` on strings: k occurs in s as a contiguous run
IsSubstring(k, s) ==
    \E i \in 0..(Len(s) - Len(k)) : \A j \in 1..Len(k) : s[i + j] = k[j]

\* any(word in s for word in words)
AnyIn(words, s) == \E n \in 1..Len(words) : IsSubstring(words[n], s)

\* " ".join(ws)
RECURSIVE Join(_)
Join(ws) ==
    IF Len(ws) = 0 THEN <<>>
    ELSE IF Len(ws) = 1 THEN ws[1]
    ELSE ws[1] \o <<" ">> \o Join(Tail(ws))

----------------------------------------------------------------------------
(* analyze_customer_situation *)

tracking_keywords ==
    << <<"w","h","e","r","e">>,
       <<"s","t","a","t","u","s">>,
       <<"d","r","i","v","e","r">>,
       <<"e","t","a">>,
       <<"t","i","m","e">>,
       <<"l","o","c","a","t","i","o","n">> >>

problem_keywords ==
    << <<"s","p","i","l","l">>,
       <<"w","r","o","n","g">>,
       <<"d","a","m","a","g","e">>,
       <<"c","o","l","d">>,
       <<"m","i","s","s","i","n","g">>,
       <<"t","e","r","r","i","b","l","e">>,
       <<"a","w","f","u","l">>,
       <<"b","a","d">>,
       <<"b","r","o","k","e","n">>,
       <<"p","a","c","k","a","g","i","n","g">> >>

evidence_needed_cases ==
    << <<"s","p","i","l","l">>,
       <<"d","a","m","a","g","e">>,
       <<"w","r","o","n","g">>,
       <<"p","a","c","k","a","g","i","n","g">>,
       <<"q","u","a","l","i","t","y">>,
       <<"b","r","o","k","e","n">>,
       <<"m","e","s","s">>,
       <<"b","a","d">> >>

analyze_spilled_words ==
    << <<"s","p","i","l","l">>,
       <<"d","a","m","a","g","e">>,
       <<"l","e","a","k">>,
       <<"m","e","s","s">> >>

analyze_wrong_words ==
    << <<"w","r","o","n","g">>,
       <<"d","i","f","f","e","r","e","n","t">>,
       <<"m","i","s","t","a","k","e">> >>

analyze_packaging_words ==
    << <<"p","a","c","k","a","g","i","n","g">>,
       <<"b","r","o","k","e","n">>,
       <<"d","a","m","a","g","e","d">> >>

analyze_cold_words ==
    << <<"c","o","l","d">>,
       <<"l","u","k","e","w","a","r","m">> >>

analyze_missing_words ==
    << <<"m","i","s","s","i","n","g">>,
       <<"f","o","r","g","o","t">> >>

analyze_quality_words ==
    << <<"q","u","a","l","i","t","y">>,
       <<"b","a","d">>,
       <<"t","e","r","r","i","b","l","e">> >>

\* a variant that forgets the test for problem keywords
is_tracking_request_ignoring_problems(message_lower) ==
    AnyIn(tracking_keywords, message_lower)

is_tracking_request(message_lower) ==
    AnyIn(tracking_keywords, message_lower) /\ ~AnyIn(problem_keywords, message_lower)

is_actual_problem(message_lower) == AnyIn(problem_keywords, message_lower)

\* a variant that tests the wrong-order keywords before the spill keywords
analyze_issue_type_wrong_first(message_lower) ==
    IF AnyIn(analyze_wrong_words, message_lower) THEN "wrong_order"
    ELSE IF AnyIn(analyze_spilled_words, message_lower) THEN "spilled_food"
    ELSE IF AnyIn(analyze_packaging_words, message_lower) THEN "packaging_issue"
    ELSE IF AnyIn(analyze_cold_words, message_lower) THEN "cold_food"
    ELSE IF AnyIn(analyze_missing_words, message_lower) THEN "missing_items"
    ELSE IF AnyIn(analyze_quality_words, message_lower) THEN "quality_issue"
    ELSE "general_problem"

\* the if/elif chain that sets issue_type in the problem branch
analyze_issue_type(message_lower) ==
    IF AnyIn(analyze_spilled_words, message_lower) THEN "spilled_food"
    ELSE IF AnyIn(analyze_wrong_words, message_lower) THEN "wrong_order"
    ELSE IF AnyIn(analyze_packaging_words, message_lower) THEN "packaging_issue"
    ELSE IF AnyIn(analyze_cold_words, message_lower) THEN "cold_food"
    ELSE IF AnyIn(analyze_missing_words, message_lower) THEN "missing_items"
    ELSE IF AnyIn(analyze_quality_words, message_lower) THEN "quality_issue"
    ELSE "general_problem"

\* issue_type.replace('_', ' ').title() on the issue types the tools produce
Title(issue_type) ==
    CASE issue_type = "spilled_food" -> "Spilled Food"
      [] issue_type = "wrong_order" -> "Wrong Order"
      [] issue_type = "packaging_issue" -> "Packaging Issue"
      [] issue_type = "cold_food" -> "Cold Food"
      [] issue_type = "missing_items" -> "Missing Items"
      [] issue_type = "quality_issue" -> "Quality Issue"
      [] issue_type = "general_problem" -> "General Problem"
      [] issue_type = "delivery_delay" -> "Delivery Delay"
      [] issue_type = "general" -> "General"

\* a variant whose last branch does not return: a message that is neither a
\* tracking request nor a problem runs on into the statements after the
\* branches, which read issue_type before anything assigned it
analyze_customer_situation_falls_through(customer_message) ==
    LET message_lower == Lower(customer_message)
    IN  IF is_tracking_request(message_lower)
        THEN [heading |-> "TRACKING REQUEST DETECTED"]
        ELSE IF is_actual_problem(message_lower)
        THEN [heading |-> "ACTUAL PROBLEM DETECTED",
              issue_type |-> Title(analyze_issue_type(message_lower)),
              needs_evidence |-> AnyIn(evidence_needed_cases, message_lower)]
        ELSE [raised |-> "UnboundLocalError"]

\* The returned text is one of three reports. The record holds the report's
\* heading and the values the f-string puts into it.
analyze_customer_situation(customer_message) ==
    LET message_lower == Lower(customer_message)
    IN  IF is_tracking_request(message_lower)
        THEN [heading |-> "TRACKING REQUEST DETECTED"]
        ELSE IF is_actual_problem(message_lower)
        THEN [heading |-> "ACTUAL PROBLEM DETECTED",
              issue_type |-> Title(analyze_issue_type(message_lower)),
              needs_evidence |-> AnyIn(evidence_needed_cases, message_lower)]
        ELSE [heading |-> "GENERAL INQUIRY DETECTED",
              customer_message |-> customer_message]

----------------------------------------------------------------------------
(* provide_generic_solution *)

generic_spilled_words ==
    << <<"s","p","i","l","l">>,
       <<"d","a","m","a","g","e">>,
       <<"l","e","a","k">>,
       <<"m","e","s","s">> >>

generic_wrong_words ==
    << <<"w","r","o","n","g">>,
       <<"d","i","f","f","e","r","e","n","t">>,
       <<"n","o","t"," ","w","h","a","t">>,
       <<"m","i","s","t","a","k","e">> >>

generic_late_words ==
    << <<"l","a","t","e">>,
       <<"d","e","l","a","y">>,
       <<"s","l","o","w">>,
       <<"w","a","i","t","i","n","g">> >>

generic_cold_words ==
    << <<"c","o","l","d">>,
       <<"l","u","k","e","w","a","r","m">>,
       <<"n","o","t"," ","h","o","t">> >>

generic_missing_words ==
    << <<"m","i","s","s","i","n","g">>,
       <<"f","o","r","g","o","t">>,
       <<"d","i","d","n","'","t"," ","g","e","t">> >>

\* the if/elif chain that sets issue_type
generic_issue_type(details_lower) ==
    IF AnyIn(generic_spilled_words, details_lower) THEN "spilled_food"
    ELSE IF AnyIn(generic_wrong_words, details_lower) THEN "wrong_order"
    ELSE IF AnyIn(generic_late_words, details_lower) THEN "late_delivery"
    ELSE IF AnyIn(generic_cold_words, details_lower) THEN "cold_food"
    ELSE IF AnyIn(generic_missing_words, details_lower) THEN "missing_items"
    ELSE "general"

\* the text returned for issue_type spilled_food (tools.py lines 329-341),
\* one element per character
generic_text_spilled_food ==
    <<"I","'","m"," ","t","r","u","l","y"," ","s","o","r","r","y"," ","t","o"," ","h","e","a",
      "r"," ","a","b","o","u","t"," ","y","o","u","r"," ","f","o","o","d"," ","b","e","i","n",
      "g"," ","s","p","i","l","l","e","d"," ","d","u","r","i","n","g"," ","d","e","l","i","v",
      "e","r","y","."," ","I"," ","c","o","m","p","l","e","t","e","l","y"," ","u","n","d","e",
      "r","s","t","a","n","d"," ","h","o","w"," ","d","i","s","a","p","p","o","i","n","t","i",
      "n","g"," ","a","n","d"," ","f","r","u","s","t","r","a","t","i","n","g"," ","t","h","i",
      "s"," ","m","u","s","t"," ","b","e",","," ","e","s","p","e","c","i","a","l","l","y"," ",
      "a","f","t","e","r"," ","y","o","u"," ","w","e","r","e"," ","l","o","o","k","i","n","g",
      " ","f","o","r","w","a","r","d"," ","t","o"," ","y","o","u","r"," ","m","e","a","l",".",
      "\n","\n","U+1F4CB"," ","*","*","W","h","a","t"," ","I","'","m"," ","d","o","i","n","g",
      " ","r","i","g","h","t"," ","n","o","w",":","*","*","\n","U+2022"," ","*","*","L","o","g",
      "g","i","n","g"," ","t","h","i","s"," ","i","n","c","i","d","e","n","t","*","*"," ","w",
      "i","t","h"," ","o","u","r"," ","q","u","a","l","i","t","y"," ","a","s","s","u","r","a",
      "n","c","e"," ","t","e","a","m","\n","U+2022"," ","*","*","R","e","p","o","r","t","i","n",
      "g"," ","t","o"," ","t","h","e"," ","m","e","r","c","h","a","n","t","*","*"," ","t","o",
      " ","p","r","e","v","e","n","t"," ","s","i","m","i","l","a","r"," ","i","s","s","u","e",
      "s","\n","U+2022"," ","*","*","D","o","c","u","m","e","n","t","i","n","g"," ","d","e","l",
      "i","v","e","r","y"," ","p","a","r","t","n","e","r"," ","f","e","e","d","b","a","c","k",
      "*","*"," ","f","o","r"," ","i","m","p","r","o","v","e","m","e","n","t","\n","U+2022"," ",
      "*","*","A","d","d","i","n","g"," ","t","h","i","s"," ","t","o"," ","o","u","r"," ","q",
      "u","a","l","i","t","y"," ","i","m","p","r","o","v","e","m","e","n","t"," ","d","a","t",
      "a","b","a","s","e","*","*","\n","\n","T","h","i","s"," ","k","i","n","d"," ","o","f"," ",
      "f","e","e","d","b","a","c","k"," ","i","s"," ","i","n","c","r","e","d","i","b","l","y",
      " ","v","a","l","u","a","b","l","e"," ","f","o","r"," ","h","e","l","p","i","n","g"," ",
      "u","s"," ","i","m","p","r","o","v","e"," ","o","u","r"," ","s","e","r","v","i","c","e",
      " ","s","t","a","n","d","a","r","d","s","."," ","Y","o","u","r"," ","e","x","p","e","r",
      "i","e","n","c","e"," ","h","e","l","p","s"," ","u","s"," ","t","r","a","i","n"," ","o",
      "u","r"," ","d","e","l","i","v","e","r","y"," ","p","a","r","t","n","e","r","s"," ","b",
      "e","t","t","e","r"," ","a","n","d"," ","w","o","r","k"," ","w","i","t","h"," ","m","e",
      "r","c","h","a","n","t","s"," ","o","n"," ","p","r","o","p","e","r"," ","p","a","c","k",
      "a","g","i","n","g",".","\n","\n","U+1F4DD"," ","*","*","I","n","c","i","d","e","n","t",
      " ","S","t","a","t","u","s",":","*","*"," ","R","e","c","o","r","d","e","d"," ","a","n",
      "d"," ","f","o","r","w","a","r","d","e","d"," ","t","o"," ","r","e","l","e","v","a","n",
      "t"," ","t","e","a","m","s"," ","f","o","r"," ","r","e","v","i","e","w","\n","\n","I","s",
      " ","t","h","e","r","e"," ","a","n","y","t","h","i","n","g"," ","e","l","s","e"," ","a",
      "b","o","u","t"," ","t","h","i","s"," ","e","x","p","e","r","i","e","n","c","e"," ","y",
      "o","u","'","d"," ","l","i","k","e"," ","m","e"," ","t","o"," ","d","o","c","u","m","e",
      "n","t"," ","o","r"," ","a","d","d","r","e","s","s","?">>

\* the text returned for issue_type wrong_order (tools.py lines 344-356),
\* one element per character
generic_text_wrong_order ==
    <<"I"," ","s","i","n","c","e","r","e","l","y"," ","a","p","o","l","o","g","i","z","e"," ",
      "f","o","r"," ","t","h","e"," ","m","i","x","-","u","p"," ","w","i","t","h"," ","y","o",
      "u","r"," ","o","r","d","e","r","."," ","R","e","c","e","i","v","i","n","g"," ","s","o",
      "m","e","t","h","i","n","g"," ","d","i","f","f","e","r","e","n","t"," ","f","r","o","m",
      " ","w","h","a","t"," ","y","o","u"," ","o","r","d","e","r","e","d"," ","i","s"," ","d",
      "e","f","i","n","i","t","e","l","y"," ","f","r","u","s","t","r","a","t","i","n","g",",",
      " ","a","n","d"," ","I"," ","c","o","m","p","l","e","t","e","l","y"," ","u","n","d","e",
      "r","s","t","a","n","d"," ","y","o","u","r"," ","d","i","s","a","p","p","o","i","n","t",
      "m","e","n","t",".","\n","\n","U+1F4CB"," ","*","*","W","h","a","t"," ","I","'","m"," ",
      "d","o","i","n","g"," ","r","i","g","h","t"," ","n","o","w",":","*","*","\n","U+2022"," ",
      "*","*","L","o","g","g","i","n","g"," ","t","h","i","s"," ","o","r","d","e","r"," ","e",
      "r","r","o","r","*","*"," ","i","n"," ","o","u","r"," ","s","y","s","t","e","m"," ","f",
      "o","r"," ","i","n","v","e","s","t","i","g","a","t","i","o","n","\n","U+2022"," ","*","*",
      "N","o","t","i","f","y","i","n","g"," ","t","h","e"," ","m","e","r","c","h","a","n","t",
      "*","*"," ","a","b","o","u","t"," ","t","h","e"," ","p","r","e","p","a","r","a","t","i",
      "o","n"," ","m","i","s","t","a","k","e","\n","U+2022"," ","*","*","R","e","c","o","r","d",
      "i","n","g"," ","t","h","i","s"," ","f","e","e","d","b","a","c","k","*","*"," ","t","o",
      " ","i","m","p","r","o","v","e"," ","o","r","d","e","r"," ","a","c","c","u","r","a","c",
      "y","\n","U+2022"," ","*","*","U","p","d","a","t","i","n","g"," ","q","u","a","l","i","t",
      "y"," ","m","e","t","r","i","c","s","*","*"," ","t","o"," ","p","r","e","v","e","n","t",
      " ","f","u","t","u","r","e"," ","m","i","x","-","u","p","s","\n","\n","Y","o","u","r"," ",
      "f","e","e","d","b","a","c","k"," ","i","s"," ","e","s","s","e","n","t","i","a","l"," ",
      "f","o","r"," ","h","e","l","p","i","n","g"," ","u","s"," ","i","m","p","r","o","v","e",
      " ","o","u","r"," ","o","r","d","e","r"," ","f","u","l","f","i","l","l","m","e","n","t",
      " ","p","r","o","c","e","s","s","."," ","T","h","i","s"," ","i","n","f","o","r","m","a",
      "t","i","o","n"," ","h","e","l","p","s"," ","b","o","t","h"," ","o","u","r"," ","r","e",
      "s","t","a","u","r","a","n","t"," ","p","a","r","t","n","e","r","s"," ","a","n","d"," ",
      "o","u","r"," ","o","p","e","r","a","t","i","o","n","s"," ","t","e","a","m"," ","u","n",
      "d","e","r","s","t","a","n","d"," ","w","h","e","r","e"," ","i","m","p","r","o","v","e",
      "m","e","n","t","s"," ","a","r","e"," ","n","e","e","d","e","d",".","\n","\n","U+1F4DD",
      " ","*","*","I","n","c","i","d","e","n","t"," ","S","t","a","t","u","s",":","*","*"," ",
      "D","o","c","u","m","e","n","t","e","d"," ","a","n","d"," ","s","h","a","r","e","d"," ",
      "w","i","t","h"," ","q","u","a","l","i","t","y"," ","i","m","p","r","o","v","e","m","e",
      "n","t"," ","t","e","a","m","\n","\n","I","s"," ","t","h","e","r","e"," ","a","n","y","t",
      "h","i","n","g"," ","s","p","e","c","i","f","i","c"," ","a","b","o","u","t"," ","t","h",
      "e"," ","o","r","d","e","r"," ","m","i","x","-","u","p"," ","y","o","u","'","d"," ","l",
      "i","k","e"," ","m","e"," ","t","o"," ","i","n","c","l","u","d","e"," ","i","n"," ","t",
      "h","e"," ","r","e","p","o","r","t","?">>

\* the text returned for issue_type cold_food (tools.py lines 359-371),
\* one element per character
generic_text_cold_food ==
    <<"I","'","m"," ","r","e","a","l","l","y"," ","s","o","r","r","y"," ","y","o","u","r"," ",
      "f","o","o","d"," ","a","r","r","i","v","e","d"," ","c","o","l","d","."," ","I"," ","k",
      "n","o","w"," ","h","o","w"," ","d","i","s","a","p","p","o","i","n","t","i","n","g"," ",
      "i","t"," ","i","s"," ","w","h","e","n"," ","y","o","u","r"," ","m","e","a","l"," ","d",
      "o","e","s","n","'","t"," ","a","r","r","i","v","e"," ","a","t"," ","t","h","e"," ","r",
      "i","g","h","t"," ","t","e","m","p","e","r","a","t","u","r","e"," ","-"," ","i","t"," ",
      "r","e","a","l","l","y"," ","a","f","f","e","c","t","s"," ","t","h","e"," ","w","h","o",
      "l","e"," ","d","i","n","i","n","g"," ","e","x","p","e","r","i","e","n","c","e",".","\n",
      "\n","U+1F4CB"," ","*","*","W","h","a","t"," ","I","'","m"," ","d","o","i","n","g"," ",
      "r","i","g","h","t"," ","n","o","w",":","*","*","\n","U+2022"," ","*","*","R","e","c","o",
      "r","d","i","n","g"," ","t","h","i","s"," ","t","e","m","p","e","r","a","t","u","r","e",
      " ","i","s","s","u","e","*","*"," ","f","o","r"," ","d","e","l","i","v","e","r","y"," ",
      "q","u","a","l","i","t","y"," ","r","e","v","i","e","w","\n","U+2022"," ","*","*","I","n",
      "f","o","r","m","i","n","g"," ","t","h","e"," ","m","e","r","c","h","a","n","t","*","*",
      " ","a","b","o","u","t"," ","f","o","o","d"," ","t","e","m","p","e","r","a","t","u","r",
      "e"," ","m","a","i","n","t","e","n","a","n","c","e","\n","U+2022"," ","*","*","L","o","g",
      "g","i","n","g"," ","d","e","l","i","v","e","r","y"," ","t","i","m","e"," ","f","a","c",
      "t","o","r","s","*","*"," ","t","h","a","t"," ","m","a","y"," ","h","a","v","e"," ","c",
      "o","n","t","r","i","b","u","t","e","d","\n","U+2022"," ","*","*","A","d","d","i","n","g",
      " ","t","o"," ","o","u","r"," ","s","e","r","v","i","c","e"," ","i","m","p","r","o","v",
      "e","m","e","n","t"," ","t","r","a","c","k","i","n","g","*","*","\n","\n","T","h","i","s",
      " ","t","y","p","e"," ","o","f"," ","f","e","e","d","b","a","c","k"," ","h","e","l","p",
      "s"," ","u","s"," ","w","o","r","k"," ","w","i","t","h"," ","b","o","t","h"," ","r","e",
      "s","t","a","u","r","a","n","t","s"," ","a","n","d"," ","d","e","l","i","v","e","r","y",
      " ","p","a","r","t","n","e","r","s"," ","o","n"," ","m","a","i","n","t","a","i","n","i",
      "n","g"," ","f","o","o","d"," ","q","u","a","l","i","t","y"," ","d","u","r","i","n","g",
      " ","t","r","a","n","s","p","o","r","t","."," ","Y","o","u","r"," ","i","n","p","u","t",
      " ","i","s"," ","v","a","l","u","a","b","l","e"," ","f","o","r"," ","i","m","p","r","o",
      "v","i","n","g"," ","o","u","r"," ","o","v","e","r","a","l","l"," ","s","e","r","v","i",
      "c","e"," ","s","t","a","n","d","a","r","d","s",".","\n","\n","U+1F4DD"," ","*","*","I",
      "n","c","i","d","e","n","t"," ","S","t","a","t","u","s",":","*","*"," ","L","o","g","g",
      "e","d"," ","f","o","r"," ","q","u","a","l","i","t","y"," ","a","s","s","u","r","a","n",
      "c","e"," ","f","o","l","l","o","w","-","u","p","\n","\n","W","o","u","l","d"," ","y","o",
      "u"," ","l","i","k","e"," ","m","e"," ","t","o"," ","i","n","c","l","u","d","e"," ","a",
      "n","y"," ","a","d","d","i","t","i","o","n","a","l"," ","d","e","t","a","i","l","s"," ",
      "a","b","o","u","t"," ","t","h","e"," ","d","e","l","i","v","e","r","y"," ","t","i","m",
      "i","n","g"," ","o","r"," ","f","o","o","d"," ","c","o","n","d","i","t","i","o","n","?">>

\* the text returned for issue_type late_delivery (tools.py lines 374-386),
\* one element per character
generic_text_late_delivery ==
    <<"I"," ","a","p","o","l","o","g","i","z","e"," ","f","o","r"," ","t","h","e"," ","d","e",
      "l","a","y","e","d"," ","d","e","l","i","v","e","r","y"," ","o","f"," ","y","o","u","r",
      " ","o","r","d","e","r","."," ","I"," ","u","n","d","e","r","s","t","a","n","d"," ","h",
      "o","w"," ","i","n","c","o","n","v","e","n","i","e","n","t"," ","i","t"," ","i","s"," ",
      "w","h","e","n"," ","y","o","u","r"," ","f","o","o","d"," ","t","a","k","e","s"," ","l",
      "o","n","g","e","r"," ","t","h","a","n"," ","e","x","p","e","c","t","e","d",","," ","e",
      "s","p","e","c","i","a","l","l","y"," ","w","h","e","n"," ","y","o","u","'","r","e"," ",
      "h","u","n","g","r","y"," ","a","n","d"," ","p","l","a","n","n","i","n","g"," ","y","o",
      "u","r"," ","t","i","m","e"," ","a","r","o","u","n","d"," ","t","h","e"," ","d","e","l",
      "i","v","e","r","y",".","\n","\n","U+1F4CB"," ","*","*","W","h","a","t"," ","I","'","m",
      " ","d","o","i","n","g"," ","r","i","g","h","t"," ","n","o","w",":","*","*","\n","U+2022",
      " ","*","*","R","e","c","o","r","d","i","n","g"," ","t","h","i","s"," ","d","e","l","i",
      "v","e","r","y"," ","d","e","l","a","y","*","*"," ","f","o","r"," ","r","o","u","t","e",
      " ","o","p","t","i","m","i","z","a","t","i","o","n"," ","r","e","v","i","e","w","\n",
      "U+2022"," ","*","*","A","n","a","l","y","z","i","n","g"," ","t","h","e"," ","d","e","l",
      "i","v","e","r","y"," ","t","i","m","e","l","i","n","e","*","*"," ","t","o"," ","i","d",
      "e","n","t","i","f","y"," ","c","a","u","s","e","s","\n","U+2022"," ","*","*","D","o","c",
      "u","m","e","n","t","i","n","g"," ","f","o","r"," ","d","e","l","i","v","e","r","y"," ",
      "p","a","r","t","n","e","r"," ","p","e","r","f","o","r","m","a","n","c","e"," ","r","e",
      "v","i","e","w","*","*","\n","U+2022"," ","*","*","L","o","g","g","i","n","g"," ","f","o",
      "r"," ","o","p","e","r","a","t","i","o","n","a","l"," ","e","f","f","i","c","i","e","n",
      "c","y"," ","i","m","p","r","o","v","e","m","e","n","t","s","*","*","\n","\n","Y","o","u",
      "r"," ","f","e","e","d","b","a","c","k"," ","a","b","o","u","t"," ","d","e","l","i","v",
      "e","r","y"," ","t","i","m","i","n","g"," ","h","e","l","p","s"," ","u","s"," ","i","m",
      "p","r","o","v","e"," ","o","u","r"," ","l","o","g","i","s","t","i","c","s"," ","a","n",
      "d"," ","b","e","t","t","e","r"," ","m","a","n","a","g","e"," ","c","u","s","t","o","m",
      "e","r"," ","e","x","p","e","c","t","a","t","i","o","n","s","."," ","T","h","i","s"," ",
      "i","n","f","o","r","m","a","t","i","o","n"," ","i","s"," ","v","a","l","u","a","b","l",
      "e"," ","f","o","r"," ","o","p","t","i","m","i","z","i","n","g"," ","o","u","r"," ","d",
      "e","l","i","v","e","r","y"," ","o","p","e","r","a","t","i","o","n","s",".","\n","\n",
      "U+1F4DD"," ","*","*","I","n","c","i","d","e","n","t"," ","S","t","a","t","u","s",":","*",
      "*"," ","D","o","c","u","m","e","n","t","e","d"," ","f","o","r"," ","o","p","e","r","a",
      "t","i","o","n","a","l"," ","r","e","v","i","e","w"," ","a","n","d"," ","i","m","p","r",
      "o","v","e","m","e","n","t","\n","\n","I","s"," ","t","h","e","r","e"," ","a","n","y","t",
      "h","i","n","g"," ","e","l","s","e"," ","a","b","o","u","t"," ","t","h","e"," ","d","e",
      "l","i","v","e","r","y"," ","e","x","p","e","r","i","e","n","c","e"," ","y","o","u","'",
      "d"," ","l","i","k","e"," ","m","e"," ","t","o"," ","r","e","c","o","r","d","?">>

\* the text returned for issue_type missing_items (tools.py lines 389-401),
\* one element per character
generic_text_missing_items ==
    <<"I","'","m"," ","s","o","r","r","y"," ","s","o","m","e"," ","i","t","e","m","s"," ","w",
      "e","r","e"," ","m","i","s","s","i","n","g"," ","f","r","o","m"," ","y","o","u","r"," ",
      "o","r","d","e","r","."," ","I"," ","u","n","d","e","r","s","t","a","n","d"," ","h","o",
      "w"," ","f","r","u","s","t","r","a","t","i","n","g"," ","i","t"," ","i","s"," ","w","h",
      "e","n"," ","y","o","u","'","r","e"," ","e","x","p","e","c","t","i","n","g"," ","c","e",
      "r","t","a","i","n"," ","i","t","e","m","s"," ","a","n","d"," ","t","h","e","y","'","r",
      "e"," ","n","o","t"," ","i","n","c","l","u","d","e","d"," ","i","n"," ","y","o","u","r",
      " ","d","e","l","i","v","e","r","y",".","\n","\n","U+1F4CB"," ","*","*","W","h","a","t",
      " ","I","'","m"," ","d","o","i","n","g"," ","r","i","g","h","t"," ","n","o","w",":","*",
      "*","\n","U+2022"," ","*","*","L","o","g","g","i","n","g"," ","t","h","i","s"," ","m","i",
      "s","s","i","n","g"," ","i","t","e","m","s"," ","i","n","c","i","d","e","n","t","*","*",
      " ","f","o","r"," ","q","u","a","l","i","t","y"," ","c","o","n","t","r","o","l","\n",
      "U+2022"," ","*","*","N","o","t","i","f","y","i","n","g"," ","t","h","e"," ","m","e","r",
      "c","h","a","n","t","*","*"," ","a","b","o","u","t"," ","o","r","d","e","r"," ","c","o",
      "m","p","l","e","t","e","n","e","s","s"," ","p","r","o","c","e","d","u","r","e","s","\n",
      "U+2022"," ","*","*","R","e","c","o","r","d","i","n","g"," ","f","o","r"," ","d","e","l",
      "i","v","e","r","y"," ","v","e","r","i","f","i","c","a","t","i","o","n"," ","p","r","o",
      "c","e","s","s"," ","i","m","p","r","o","v","e","m","e","n","t","*","*","\n","U+2022"," ",
      "*","*","D","o","c","u","m","e","n","t","i","n","g"," ","f","o","r"," ","o","r","d","e",
      "r"," ","f","u","l","f","i","l","l","m","e","n","t"," ","t","r","a","i","n","i","n","g",
      "*","*","\n","\n","T","h","i","s"," ","f","e","e","d","b","a","c","k"," ","i","s"," ","c",
      "r","u","c","i","a","l"," ","f","o","r"," ","h","e","l","p","i","n","g"," ","u","s"," ",
      "i","m","p","r","o","v","e"," ","o","u","r"," ","o","r","d","e","r"," ","v","e","r","i",
      "f","i","c","a","t","i","o","n"," ","p","r","o","c","e","s","s","e","s"," ","w","i","t",
      "h"," ","r","e","s","t","a","u","r","a","n","t"," ","p","a","r","t","n","e","r","s",".",
      " ","Y","o","u","r"," ","e","x","p","e","r","i","e","n","c","e"," ","h","e","l","p","s",
      " ","u","s"," ","s","t","r","e","n","g","t","h","e","n"," ","q","u","a","l","i","t","y",
      " ","c","o","n","t","r","o","l"," ","m","e","a","s","u","r","e","s",".","\n","\n",
      "U+1F4DD"," ","*","*","I","n","c","i","d","e","n","t"," ","S","t","a","t","u","s",":","*",
      "*"," ","R","e","c","o","r","d","e","d"," ","f","o","r"," ","m","e","r","c","h","a","n",
      "t"," ","a","n","d"," ","o","p","e","r","a","t","i","o","n","s"," ","t","e","a","m"," ",
      "r","e","v","i","e","w","\n","\n","W","o","u","l","d"," ","y","o","u"," ","l","i","k","e",
      " ","m","e"," ","t","o"," ","d","o","c","u","m","e","n","t"," ","a","n","y"," ","o","t",
      "h","e","r"," ","d","e","t","a","i","l","s"," ","a","b","o","u","t"," ","w","h","a","t",
      " ","w","a","s"," ","m","i","s","s","i","n","g","?">>

\* the text returned for issue_type general (tools.py lines 404-416),
\* one element per character
generic_text_general ==
    <<"I","'","m"," ","s","o","r","r","y"," ","t","o"," ","h","e","a","r"," ","a","b","o","u",
      "t"," ","t","h","e"," ","i","s","s","u","e"," ","w","i","t","h"," ","y","o","u","r"," ",
      "o","r","d","e","r","."," ","I"," ","u","n","d","e","r","s","t","a","n","d"," ","y","o",
      "u","r"," ","f","r","u","s","t","r","a","t","i","o","n"," ","a","n","d"," ","w","a","n",
      "t"," ","t","o"," ","m","a","k","e"," ","s","u","r","e"," ","w","e"," ","p","r","o","p",
      "e","r","l","y"," ","d","o","c","u","m","e","n","t"," ","w","h","a","t"," ","h","a","p",
      "p","e","n","e","d"," ","t","o"," ","h","e","l","p"," ","i","m","p","r","o","v","e"," ",
      "o","u","r"," ","s","e","r","v","i","c","e",".","\n","\n","U+1F4CB"," ","*","*","W","h",
      "a","t"," ","I","'","m"," ","d","o","i","n","g"," ","r","i","g","h","t"," ","n","o","w",
      ":","*","*","\n","U+2022"," ","*","*","L","o","g","g","i","n","g"," ","y","o","u","r"," ",
      "f","e","e","d","b","a","c","k","*","*"," ","i","n"," ","o","u","r"," ","q","u","a","l",
      "i","t","y"," ","i","m","p","r","o","v","e","m","e","n","t"," ","s","y","s","t","e","m",
      "\n","U+2022"," ","*","*","R","e","c","o","r","d","i","n","g"," ","t","h","e"," ","i","n",
      "c","i","d","e","n","t"," ","d","e","t","a","i","l","s","*","*"," ","f","o","r"," ","r",
      "e","v","i","e","w"," ","b","y"," ","r","e","l","e","v","a","n","t"," ","t","e","a","m",
      "s","\n","U+2022"," ","*","*","D","o","c","u","m","e","n","t","i","n","g"," ","f","o","r",
      " ","s","e","r","v","i","c","e"," ","e","n","h","a","n","c","e","m","e","n","t","*","*",
      " ","a","n","d"," ","t","r","a","i","n","i","n","g"," ","p","u","r","p","o","s","e","s",
      "\n","U+2022"," ","*","*","A","d","d","i","n","g"," ","t","o"," ","o","u","r"," ","c","u",
      "s","t","o","m","e","r"," ","e","x","p","e","r","i","e","n","c","e"," ","t","r","a","c",
      "k","i","n","g","*","*","\n","\n","Y","o","u","r"," ","f","e","e","d","b","a","c","k"," ",
      "i","s"," ","v","a","l","u","a","b","l","e"," ","f","o","r"," ","h","e","l","p","i","n",
      "g"," ","u","s"," ","i","d","e","n","t","i","f","y"," ","a","r","e","a","s"," ","w","h",
      "e","r","e"," ","w","e"," ","c","a","n"," ","d","o"," ","b","e","t","t","e","r","."," ",
      "T","h","i","s"," ","i","n","f","o","r","m","a","t","i","o","n"," ","h","e","l","p","s",
      " ","u","s"," ","i","m","p","r","o","v","e"," ","o","u","r"," ","s","e","r","v","i","c",
      "e"," ","f","o","r"," ","a","l","l"," ","c","u","s","t","o","m","e","r","s",".","\n","\n",
      "U+1F4DD"," ","*","*","I","n","c","i","d","e","n","t"," ","S","t","a","t","u","s",":","*",
      "*"," ","D","o","c","u","m","e","n","t","e","d"," ","a","n","d"," ","f","o","r","w","a",
      "r","d","e","d"," ","f","o","r"," ","a","p","p","r","o","p","r","i","a","t","e"," ","f",
      "o","l","l","o","w","-","u","p","\n","\n","I","s"," ","t","h","e","r","e"," ","a","n","y",
      "t","h","i","n","g"," ","s","p","e","c","i","f","i","c"," ","a","b","o","u","t"," ","y",
      "o","u","r"," ","e","x","p","e","r","i","e","n","c","e"," ","y","o","u","'","d"," ","l",
      "i","k","e"," ","m","e"," ","t","o"," ","i","n","c","l","u","d","e"," ","i","n"," ","t",
      "h","e"," ","r","e","p","o","r","t","?">>

\* the text returned for each issue_type; the f-strings have no placeholder
generic_text(issue_type) ==
    CASE issue_type = "spilled_food" -> generic_text_spilled_food
      [] issue_type = "wrong_order" -> generic_text_wrong_order
      [] issue_type = "cold_food" -> generic_text_cold_food
      [] issue_type = "late_delivery" -> generic_text_late_delivery
      [] issue_type = "missing_items" -> generic_text_missing_items
      [] OTHER -> generic_text_general

\* a variant that quotes the customer's words after the canned text
provide_generic_solution_quoting(issue_details) ==
    LET details_lower == Lower(issue_details)
    IN  generic_text(generic_issue_type(details_lower)) \o issue_details

provide_generic_solution(issue_details) ==
    LET details_lower == Lower(issue_details)
    IN  generic_text(generic_issue_type(details_lower))

----------------------------------------------------------------------------
(* Numbers in text *)

DigitChars == <<"0","1","2","3","4","5","6","7","8","9">>

IsDigit(c) == \E d \in 1..10 : DigitChars[d] = c

DigitValue(c) == (CHOOSE d \in 1..10 : DigitChars[d] = c) - 1

\* \s of the regular expressions, on the characters the texts use
IsSpace(c) == c \in {" ", "\n", "\t"}

\* int() of a run of digits
RECURSIVE ParseInt(_)
ParseInt(ds) ==
    IF Len(ds) = 0 THEN 0
    ELSE 10 * ParseInt(SubSeq(ds, 1, Len(ds) - 1)) + DigitValue(ds[Len(ds)])

\* the end of the longest run of digits of s that starts at position i
\* (i - 1 when s[i] is no digit): what a greedy \d+ consumes
RECURSIVE DigitsEnd(_, _)
DigitsEnd(s, i) ==
    IF i <= Len(s) /\ IsDigit(s[i]) THEN DigitsEnd(s, i + 1) ELSE i - 1

\* the end of the longest run of white space of s that starts at position i
RECURSIVE SpacesEnd(_, _)
SpacesEnd(s, i) ==
    IF i <= Len(s) /\ IsSpace(s[i]) THEN SpacesEnd(s, i + 1) ELSE i - 1

\* s has the literal k at position i
HasAt(s, i, k) ==
    /\ i + Len(k) - 1 <= Len(s)
    /\ \A j \in 1..Len(k) : s[i + j - 1] = k[j]

\* str(n) for a natural number
RECURSIVE Digits(_)
Digits(n) ==
    IF n < 10 THEN <<DigitChars[n + 1]>>
    ELSE Digits(n \div 10) \o <<DigitChars[(n % 10) + 1]>>

\* min(a, b)
Min(a, b) == IF a <= b THEN a ELSE b

\* int(order_value * percentage / 100): the quotient is not negative and
\* int() drops its fraction. Binary64 gives the same integer as the exact
\* quotient for the percentages of the code on order values to 300000.
IntPercent(order_value, percentage) == (order_value * percentage) \div 100

----------------------------------------------------------------------------
(* negotiate_fair_compensation *)

\* re.search(r'U+20B9(\d+)', order_details) behind the test "U+20B9" in order_details:
\* the set holds the group of the leftmost match, or nothing without a match
negotiate_amount_match(order_details) ==
    LET starts == {i \in 1..Len(order_details) :
                      /\ order_details[i] = RUPEE
                      /\ DigitsEnd(order_details, i + 1) >= i + 1}
    IN  IF starts = {} THEN {}
        ELSE LET i == CHOOSE a \in starts : \A b \in starts : a <= b
             IN  {SubSeq(order_details, i + 1, DigitsEnd(order_details, i + 1))}

negotiate_default_order_value == 500

negotiate_order_value(order_details) ==
    LET match == negotiate_amount_match(order_details)
    IN  IF match = {} THEN negotiate_default_order_value
        ELSE ParseInt(CHOOSE g \in match : TRUE)

negotiate_wrong_words ==
    << <<"w","r","o","n","g">>,
       <<"i","n","c","o","r","r","e","c","t">>,
       <<"d","i","f","f","e","r","e","n","t">> >>

negotiate_quality_words ==
    << <<"s","p","i","l","l","e","d">>,
       <<"d","a","m","a","g","e","d">>,
       <<"c","o","l","d">>,
       <<"s","o","g","g","y">> >>

negotiate_delay_words ==
    << <<"l","a","t","e">>,
       <<"d","e","l","a","y">>,
       <<"w","a","i","t","i","n","g">> >>

negotiate_missing_words ==
    << <<"m","i","s","s","i","n","g">>,
       <<"i","n","c","o","m","p","l","e","t","e">> >>

\* the if/elif chain that sets issue_type and base_percentage
negotiate_issue(details_lower) ==
    IF AnyIn(negotiate_wrong_words, details_lower)
    THEN [issue_type |-> "wrong_order", base_percentage |-> 30]
    ELSE IF AnyIn(negotiate_quality_words, details_lower)
    THEN [issue_type |-> "quality_issue", base_percentage |-> 40]
    ELSE IF AnyIn(negotiate_delay_words, details_lower)
    THEN [issue_type |-> "delivery_delay", base_percentage |-> 15]
    ELSE IF AnyIn(negotiate_missing_words, details_lower)
    THEN [issue_type |-> "missing_items", base_percentage |-> 35]
    ELSE [issue_type |-> "general", base_percentage |-> 25]

base_compensation(order_value, base_percentage) ==
    IntPercent(order_value, base_percentage)

tier_1_offer(base) == base

\* a variant that forgets the 40% cap of the second tier
tier_2_offer_uncapped(base, order_value) == base + 30

\* min(base_compensation + 30, int(order_value * 0.4))
tier_2_offer(base, order_value) == Min(base + 30, IntPercent(order_value, 40))

\* min(int(order_value * 0.5), base_compensation + 60)
tier_3_offer(order_value, base) == Min(IntPercent(order_value, 50), base + 60)

delivery_cost_choices == {45, 50, 55, 60}

goodwill_voucher_choices == {30, 40, 50}

customer_satisfaction_score_choices == {75, 80, 85, 90}

\* Every text the call can return, one per outcome of its three
\* random.choice draws. The record holds the values the f-string formats.
negotiate_fair_compensation(order_details) ==
    LET order_value == negotiate_order_value(order_details)
        issue == negotiate_issue(Lower(order_details))
        base == base_compensation(order_value, issue.base_percentage)
    IN  {[order_value |-> order_value,
          issue_type |-> Title(issue.issue_type),
          base_compensation |-> base,
          delivery_cost |-> delivery_cost,
          tier_1_offer |-> tier_1_offer(base),
          goodwill_voucher |-> goodwill_voucher,
          total_value |-> tier_1_offer(base) + goodwill_voucher,
          tier_2_offer |-> tier_2_offer(base, order_value),
          tier_3_offer |-> tier_3_offer(order_value, base),
          customer_satisfaction_score |-> customer_satisfaction_score] :
            delivery_cost \in delivery_cost_choices,
            goodwill_voucher \in goodwill_voucher_choices,
            customer_satisfaction_score \in customer_satisfaction_score_choices}

----------------------------------------------------------------------------
(* Customer messages *)

\* the words the bounded messages are made of
ClassifyWords ==
    << <<"w","h","e","r","e">>,
       <<"s","p","i","l","l","e","d">>,
       <<"w","r","o","n","g">>,
       <<"b","r","o","k","e","n">>,
       <<"c","o","l","d">>,
       <<"m","i","s","s","i","n","g">>,
       <<"b","a","d">>,
       <<"a","w","f","u","l">>,
       <<"l","a","t","e">>,
       <<"r","e","f","u","n","d">> >>

\* the longest bounded message, in words
MaxWords == 2

\* the sample messages of the agent's system prompt and of the specification
DriverLateMessage == <<"D","r","i","v","e","r"," ","i","s"," ","v","e","r","y"," ","l","a","t","e",","," ","w","h","e","r","e"," ","i","s"," ","m","y"," ","o","r","d","e","r","?">>

SpilledMessage == <<"M","y"," ","f","o","o","d"," ","w","a","s"," ","c","o","m","p","l","e","t","e","l","y"," ","s","p","i","l","l","e","d"," ","d","u","r","i","n","g"," ","d","e","l","i","v","e","r","y","!">>

WhereSpilledMessage == <<"W","h","e","r","e"," ","i","s"," ","m","y"," ","o","r","d","e","r",","," ","i","t"," ","a","r","r","i","v","e","d"," ","s","p","i","l","l","e","d">>

ScenarioMessages == {DriverLateMessage, SpilledMessage, WhereSpilledMessage}

\* every message of at most MaxWords words, the empty one included
ClassifyMessages ==
    {Join([k \in 1..Len(ws) |-> ClassifyWords[ws[k]]]) :
        ws \in UNION {[1..n -> 1..Len(ClassifyWords)] : n \in 0..MaxWords}}
    \cup ScenarioMessages

----------------------------------------------------------------------------
(* The classifiers applied to one message *)

NoResult == [heading |-> "none"]

InitClassify ==
    /\ args \in {[tool_input |-> m] : m \in ClassifyMessages}
    /\ tool = "none"
    /\ result = NoResult
    /\ chat_history = <<>>

AnalyzeCustomerSituation ==
    /\ "tool_input" \in DOMAIN args
    /\ tool' = "analyze_customer_situation"
    /\ result' = analyze_customer_situation(args.tool_input)
    /\ UNCHANGED <<args, chat_history>>

ProvideGenericSolution ==
    /\ "tool_input" \in DOMAIN args
    /\ tool' = "provide_generic_solution"
    /\ result' = [response |-> provide_generic_solution(args.tool_input)]
    /\ UNCHANGED <<args, chat_history>>

NegotiateFairCompensation ==
    /\ "tool_input" \in DOMAIN args
    /\ tool' = "negotiate_fair_compensation"
    /\ result' \in negotiate_fair_compensation(args.tool_input)
    /\ UNCHANGED <<args, chat_history>>

NextClassify ==
    \/ AnalyzeCustomerSituation
    \/ ProvideGenericSolution
    \/ NegotiateFairCompensation

SpecClassify == InitClassify /\ [][NextClassify]_vars

----------------------------------------------------------------------------
(* calculate_dynamic_compensation *)

\* compensation_matrix; base is in tenths (10 is the factor 1.0)
compensation_matrix(issue_type) ==
    CASE issue_type = "spilled" -> [base |-> 10, bonus |-> 50, type |-> "full_refund_plus"]
      [] issue_type = "damaged" -> [base |-> 10, bonus |-> 30, type |-> "full_refund_plus"]
      [] issue_type = "wrong_order" -> [base |-> 10, bonus |-> 20, type |-> "full_refund"]
      [] issue_type = "missing_items" -> [base |-> 6, bonus |-> 15, type |-> "partial_refund"]
      [] issue_type = "cold_food" -> [base |-> 4, bonus |-> 25, type |-> "partial_refund"]
      [] issue_type = "late_delivery" -> [base |-> 3, bonus |-> 10, type |-> "delivery_refund"]
      [] issue_type = "poor_quality" -> [base |-> 7, bonus |-> 20, type |-> "partial_refund"]
      [] OTHER -> [base |-> 5, bonus |-> 15, type |-> "standard"]

estimated_orders == {180, 250, 320, 450, 580, 720, 890, 1200}

\* the order values to 1300 whose binary64 product with 0.7 falls just short
\* of the exact product, an integer, so that int() gives one less
ShortOfSevenTenths ==
    {90, 170, 180, 330, 340, 350, 360, 650, 660, 670, 680, 690, 700, 710,
     720, 730, 1290, 1300}

\* int(order_value * comp["base"]) for a base given in tenths; with the other
\* factors of the matrix binary64 gives the exact quotient's integer part
IntTimesBase(order_value, base) ==
    IF base = 7 /\ order_value \in ShortOfSevenTenths
    THEN (order_value * base) \div 10 - 1
    ELSE (order_value * base) \div 10

\* Every dict the call can return. call has the field order_value when the
\* caller passes one; None and 0 are both replaced by a random estimate.
calculate_dynamic_compensation(call) ==
    LET given == IF "order_value" \in DOMAIN call THEN call.order_value ELSE 0
        order_values == IF given # 0 THEN {given} ELSE estimated_orders
        comp == compensation_matrix(call.issue_type)
    IN  {[order_value |-> order_value,
          refund_amount |-> IntTimesBase(order_value, comp.base),
          bonus_voucher |-> comp.bonus,
          total_compensation |-> IntTimesBase(order_value, comp.base) + comp.bonus,
          compensation_type |-> comp.type] : order_value \in order_values}

----------------------------------------------------------------------------
(* offer_goodwill_voucher *)

furious_levels ==
    << <<"e","x","t","r","e","m","e","l","y"," ","d","i","s","s","a","t","i","s","f","i","e","d">>,
       <<"v","e","r","y"," ","u","p","s","e","t">>,
       <<"a","n","g","r","y">> >>

unhappy_levels ==
    << <<"d","i","s","s","a","t","i","s","f","i","e","d">>,
       <<"u","n","h","a","p","p","y">> >>

default_satisfaction_level == <<"d","i","s","s","a","t","i","s","f","i","e","d">>

\* x in words: the string is an element of the list
IsOneOf(x, words) == \E n \in 1..Len(words) : words[n] = x

goodwill_order_values == {200, 300, 400, 500, 600, 700, 800}

\* the if/elif chain that sets voucher_percentage and escalation_percentage
goodwill_percentages(customer_satisfaction_level) ==
    IF IsOneOf(Lower(customer_satisfaction_level), furious_levels)
    THEN [voucher_percentage |-> 70, escalation_percentage |-> 90]
    ELSE IF IsOneOf(Lower(customer_satisfaction_level), unhappy_levels)
    THEN [voucher_percentage |-> 50, escalation_percentage |-> 70]
    ELSE [voucher_percentage |-> 30, escalation_percentage |-> 50]

\* random.randint(1000, 9999) is drawn at the two ends of its range
voucher_code_choices == {1000, 9999}

\* Every text the call can return: the record holds the locals the text is
\* formatted from and the order value drawn (the expiry date, a function of
\* the clock, is left out).
offer_goodwill_voucher(call) ==
    LET customer_satisfaction_level ==
            IF "customer_satisfaction_level" \in DOMAIN call
            THEN call.customer_satisfaction_level
            ELSE default_satisfaction_level
        pct == goodwill_percentages(customer_satisfaction_level)
    IN  {[order_value |-> order_value,
          voucher_percentage |-> pct.voucher_percentage,
          escalation_percentage |-> pct.escalation_percentage,
          initial_voucher |-> IntPercent(order_value, pct.voucher_percentage),
          max_voucher |-> IntPercent(order_value, pct.escalation_percentage),
          voucher_code |-> voucher_code] :
            order_value \in goodwill_order_values,
            voucher_code \in voucher_code_choices}

----------------------------------------------------------------------------
(* gather_compensation_details *)

lit_rs == <<"r","s">>

lit_rupees == <<"r","u","p","e","e","s">>

\* the three alternatives of r'U+20B9(\d+)|rs\s*(\d+)|(\d+)\s*rupees' tried at
\* position i of s: the set holds the group of the first one that matches
gather_match_at(s, i) ==
    LET afterRs == SpacesEnd(s, i + 2) + 1
        digitsEnd == DigitsEnd(s, i)
    IN  IF s[i] = RUPEE /\ DigitsEnd(s, i + 1) >= i + 1
        THEN {SubSeq(s, i + 1, DigitsEnd(s, i + 1))}
        ELSE IF HasAt(s, i, lit_rs) /\ DigitsEnd(s, afterRs) >= afterRs
        THEN {SubSeq(s, afterRs, DigitsEnd(s, afterRs))}
        ELSE IF digitsEnd >= i /\ HasAt(s, SpacesEnd(s, digitsEnd + 1) + 1, lit_rupees)
        THEN {SubSeq(s, i, digitsEnd)}
        ELSE {}

\* re.search on customer_query.lower(), behind the test for a currency mark:
\* the group of the leftmost match, or nothing
gather_amount_match(customer_query) ==
    LET s == Lower(customer_query)
        marked == \/ IsSubstring(<<RUPEE>>, customer_query)
                  \/ IsSubstring(lit_rs, s)
                  \/ IsSubstring(lit_rupees, s)
        starts == {i \in 1..Len(s) : gather_match_at(s, i) # {}}
    IN  IF ~marked \/ starts = {} THEN {}
        ELSE gather_match_at(s, CHOOSE a \in starts : \A b \in starts : a <= b)

gather_default_order_values == {250, 350, 450, 550, 650, 750, 850, 950}

\* the order values the call can end with: `if not order_value` sends both
\* no match and the amount 0 to random.choice
gather_order_values(customer_query) ==
    LET match == gather_amount_match(customer_query)
        order_value == IF match = {} THEN 0 ELSE ParseInt(CHOOSE g \in match : TRUE)
    IN  IF order_value = 0 THEN gather_default_order_values ELSE {order_value}

gather_high_words ==
    << <<"c","o","m","p","l","e","t","e","l","y"," ","w","r","o","n","g">>,
       <<"t","e","r","r","i","b","l","e">>,
       <<"d","i","s","g","u","s","t","i","n","g">>,
       <<"a","w","f","u","l">>,
       <<"h","o","r","r","i","b","l","e">> >>

gather_low_words ==
    << <<"s","l","i","g","h","t","l","y">>,
       <<"m","i","n","o","r">>,
       <<"s","m","a","l","l">>,
       <<"b","i","t">> >>

gather_issue_severity(query_lower) ==
    IF AnyIn(gather_high_words, query_lower) THEN "high"
    ELSE IF AnyIn(gather_low_words, query_lower) THEN "low"
    ELSE "medium"

\* Every text the call can return; the record holds the values formatted
gather_compensation_details(customer_query) ==
    LET issue_severity == gather_issue_severity(Lower(customer_query))
    IN  {[order_value |-> order_value,
          issue_severity |-> issue_severity,
          customer_tone |-> IF issue_severity = "high" THEN "Frustrated"
                            ELSE IF issue_severity = "medium" THEN "Disappointed"
                            ELSE "Mild concern"] :
            order_value \in gather_order_values(customer_query)}

----------------------------------------------------------------------------
(* escalate_compensation_dissatisfaction *)

escalate_above_limit_words ==
    << <<"n","o","t"," ","e","n","o","u","g","h">>,
       <<"m","o","r","e"," ","m","o","n","e","y">>,
       <<"f","u","l","l"," ","r","e","f","u","n","d">>,
       <<"c","o","m","p","l","e","t","e"," ","r","e","f","u","n","d">> >>

escalate_policy_words ==
    << <<"u","n","f","a","i","r">>,
       <<"r","i","d","i","c","u","l","o","u","s">>,
       <<"t","e","r","r","i","b","l","e">>,
       <<"a","w","f","u","l">> >>

escalate_human_words ==
    << <<"m","a","n","a","g","e","r">>,
       <<"s","u","p","e","r","v","i","s","o","r">>,
       <<"h","u","m","a","n">>,
       <<"p","e","r","s","o","n">> >>

escalate_beyond_words ==
    << <<"c","a","n","c","e","l">>,
       <<"n","e","v","e","r"," ","a","g","a","i","n">>,
       <<"c","o","m","p","l","a","i","n","t">>,
       <<"r","e","p","o","r","t">> >>

escalation_reason(complaint_lower) ==
    IF AnyIn(escalate_above_limit_words, complaint_lower)
    THEN "Requesting compensation above 50% policy limit"
    ELSE IF AnyIn(escalate_policy_words, complaint_lower)
    THEN "Customer expressing strong dissatisfaction with policy"
    ELSE IF AnyIn(escalate_human_words, complaint_lower)
    THEN "Customer specifically requesting human intervention"
    ELSE IF AnyIn(escalate_beyond_words, complaint_lower)
    THEN "Customer threatening to escalate beyond Grab"
    ELSE "General dissatisfaction"

\* the default of the parameter attempted_compensation, which the agent's
\* one-string call always leaves in force
default_attempted_compensation == "50% of order value"

\* random.randint(10000, 99999) is drawn at the two ends of its range
escalation_id_choices == {10000, 99999}

\* Every text the call can return; the record holds the values formatted
escalate_compensation_dissatisfaction(customer_complaint) ==
    {[escalation_id |-> escalation_id,
      reason |-> escalation_reason(Lower(customer_complaint)),
      max_compensation_offered |-> default_attempted_compensation,
      customer_response |-> customer_complaint,
      priority |-> "High (Compensation Dispute)"] :
        escalation_id \in escalation_id_choices}

----------------------------------------------------------------------------
(* calculate_dynamic_refund_amount *)

\* compensation_matrix of calculate_dynamic_refund_amount, with the default
\* of its .get
refund_compensation_matrix(issue_type) ==
    CASE issue_type = "wrong_order" -> [min |-> 25, max |-> 40]
      [] issue_type = "quality_issue" -> [min |-> 30, max |-> 50]
      [] issue_type = "delivery_delay" -> [min |-> 10, max |-> 25]
      [] issue_type = "missing_items" -> [min |-> 35, max |-> 50]
      [] issue_type = "spilled_food" -> [min |-> 35, max |-> 50]
      [] issue_type = "cold_food" -> [min |-> 20, max |-> 35]
      [] issue_type = "damaged_packaging" -> [min |-> 15, max |-> 30]
      [] OTHER -> [min |-> 40, max |-> 60]

lit_full_refund == <<"f","u","l","l"," ","r","e","f","u","n","d">>

lit_complete == <<"c","o","m","p","l","e","t","e">>

lit_partial == <<"p","a","r","t","i","a","l">>

lit_some == <<"s","o","m","e">>

default_customer_expectation == <<"r","e","a","s","o","n","a","b","l","e">>

\* a variant that tests for "partial" / "some" before "full refund" /
\* "complete"
refund_percentage_partial_first(comp_range, customer_expectation) ==
    LET expectation_lower == Lower(customer_expectation)
    IN  IF IsSubstring(lit_partial, expectation_lower)
           \/ IsSubstring(lit_some, expectation_lower)
        THEN [percentage |-> comp_range.min, tier |-> "minimal"]
        ELSE IF IsSubstring(lit_full_refund, expectation_lower)
                \/ IsSubstring(lit_complete, expectation_lower)
        THEN [percentage |-> Min(comp_range.max, 50), tier |-> "maximum (50% cap)"]
        ELSE [percentage |-> (comp_range.min + Min(comp_range.max, 50)) \div 2,
              tier |-> "standard"]

\* a variant that takes the table's max as it stands when a full refund is
\* expected
refund_percentage_uncapped(comp_range, customer_expectation) ==
    LET expectation_lower == Lower(customer_expectation)
    IN  IF IsSubstring(lit_full_refund, expectation_lower)
           \/ IsSubstring(lit_complete, expectation_lower)
        THEN [percentage |-> comp_range.max, tier |-> "maximum (50% cap)"]
        ELSE IF IsSubstring(lit_partial, expectation_lower)
                \/ IsSubstring(lit_some, expectation_lower)
        THEN [percentage |-> comp_range.min, tier |-> "minimal"]
        ELSE [percentage |-> (comp_range.min + Min(comp_range.max, 50)) \div 2,
              tier |-> "standard"]

\* the percentage and the tier chosen from the customer's expectation
refund_percentage(comp_range, customer_expectation) ==
    LET expectation_lower == Lower(customer_expectation)
    IN  IF IsSubstring(lit_full_refund, expectation_lower)
           \/ IsSubstring(lit_complete, expectation_lower)
        THEN [percentage |-> Min(comp_range.max, 50), tier |-> "maximum (50% cap)"]
        ELSE IF IsSubstring(lit_partial, expectation_lower)
                \/ IsSubstring(lit_some, expectation_lower)
        THEN [percentage |-> comp_range.min, tier |-> "minimal"]
        ELSE [percentage |-> (comp_range.min + Min(comp_range.max, 50)) \div 2,
              tier |-> "standard"]

refund_goodwill_credit_choices == {50, 75, 100}

refund_delivery_cost_choices == {45, 50, 55}

platform_cost_choices == {25, 30, 35}

resolution_confidence_choices == {85, 90, 95}

\* Every report the call can return: the values its f-string shows. call
\* holds order_value, issue_type and customer_expectation.
calculate_dynamic_refund_amount(call) ==
    LET comp_range == refund_compensation_matrix(call.issue_type)
        chosen == refund_percentage(comp_range, call.customer_expectation)
        refund_amount == IntPercent(call.order_value, chosen.percentage)
    IN  { [order_value |-> call.order_value,
           issue_type |-> call.issue_type,
           tier |-> chosen.tier,
           percentage |-> chosen.percentage,
           refund_amount |-> refund_amount,
           goodwill_credit |-> goodwill_credit,
           total_customer_value |-> refund_amount + goodwill_credit,
           delivery_cost |-> delivery_cost,
           total_grab_cost |-> delivery_cost + platform_cost,
           net_business_impact |->
               refund_amount + goodwill_credit
                   - (call.order_value - (delivery_cost + platform_cost)),
           pre_approved |-> (2 * refund_amount <= call.order_value),
           resolution_confidence |-> resolution_confidence] :
          goodwill_credit \in refund_goodwill_credit_choices,
          delivery_cost \in refund_delivery_cost_choices,
          platform_cost \in platform_cost_choices,
          resolution_confidence \in resolution_confidence_choices }

CalculateDynamicRefundAmount ==
    /\ "customer_expectation" \in DOMAIN args
    /\ tool' = "calculate_dynamic_refund_amount"
    /\ result' \in calculate_dynamic_refund_amount(args)
    /\ UNCHANGED <<args, chat_history>>

----------------------------------------------------------------------------
(* The scorer applied to one input *)

ScorerWords ==
    << <<"w","r","o","n","g">>,
       <<"s","p","i","l","l","e","d">>,
       <<"l","a","t","e">>,
       <<"m","i","s","s","i","n","g">>,
       <<"r","e","f","u","n","d">> >>

\* the largest order value written into a bounded message
MaxOrderValue == 400

\* an issue word alone, or followed by an amount with the rupee sign
ScorerMessages ==
    {ScorerWords[w] : w \in 1..Len(ScorerWords)}
    \cup {ScorerWords[w] \o <<" ", RUPEE>> \o Digits(v) :
             w \in 1..Len(ScorerWords), v \in 0..MaxOrderValue}

CompensationIssueTypes ==
    {"spilled", "damaged", "wrong_order", "missing_items", "cold_food",
     "late_delivery", "poor_quality", "unknown"}

SatisfactionLevels ==
    << <<"a","n","g","r","y">>,
       <<"V","e","r","y"," ","U","p","s","e","t">>,
       <<"d","i","s","s","a","t","i","s","f","i","e","d">>,
       <<"s","a","t","i","s","f","i","e","d">> >>

\* the calls of the two functions that take an issue type: with and without
\* an order value, with and without a satisfaction level
ScorerCalls ==
    {[issue_type |-> t] : t \in CompensationIssueTypes}
    \cup {[issue_type |-> t, order_value |-> v] :
             t \in CompensationIssueTypes, v \in 0..MaxOrderValue}
    \cup {[issue_type |-> t, customer_satisfaction_level |-> SatisfactionLevels[l]] :
             t \in CompensationIssueTypes, l \in 1..Len(SatisfactionLevels)}

FullRefundExpectation == <<"I"," ","w","a","n","t"," ","a"," ","f","u","l","l"," ","r","e","f","u","n","d">>

PartialExpectation == <<"p","a","r","t","i","a","l">>

CustomerExpectations ==
    {default_customer_expectation, FullRefundExpectation, PartialExpectation}

\* the calls of calculate_dynamic_refund_amount: a key of its table and two
\* strings that are no key, with every order value and each expectation
RefundCalls ==
    {[order_value |-> v, issue_type |-> t, customer_expectation |-> e] :
         v \in 0..MaxOrderValue,
         t \in {"wrong_order", "general", "unknown"},
         e \in CustomerExpectations}

InitScorer ==
    /\ args \in {[tool_input |-> m] : m \in ScorerMessages} \cup ScorerCalls
                   \cup RefundCalls
    /\ tool = "none"
    /\ result = NoResult
    /\ chat_history = <<>>

GatherCompensationDetails ==
    /\ "tool_input" \in DOMAIN args
    /\ tool' = "gather_compensation_details"
    /\ result' \in gather_compensation_details(args.tool_input)
    /\ UNCHANGED <<args, chat_history>>

EscalateCompensationDissatisfaction ==
    /\ "tool_input" \in DOMAIN args
    /\ tool' = "escalate_compensation_dissatisfaction"
    /\ result' \in escalate_compensation_dissatisfaction(args.tool_input)
    /\ UNCHANGED <<args, chat_history>>

CalculateDynamicCompensation ==
    /\ "issue_type" \in DOMAIN args
    /\ "customer_satisfaction_level" \notin DOMAIN args
    /\ "customer_expectation" \notin DOMAIN args
    /\ tool' = "calculate_dynamic_compensation"
    /\ result' \in calculate_dynamic_compensation(args)
    /\ UNCHANGED <<args, chat_history>>

OfferGoodwillVoucher ==
    /\ "issue_type" \in DOMAIN args
    /\ "order_value" \notin DOMAIN args
    /\ tool' = "offer_goodwill_voucher"
    /\ result' \in offer_goodwill_voucher(args)
    /\ UNCHANGED <<args, chat_history>>

\* each function is applied once to the input drawn
NextScorer ==
    \/ tool = "none" /\ GatherCompensationDetails
    \/ tool = "none" /\ NegotiateFairCompensation
    \/ tool = "none" /\ EscalateCompensationDissatisfaction
    \/ tool = "none" /\ CalculateDynamicCompensation
    \/ tool = "none" /\ OfferGoodwillVoucher
    \/ tool = "none" /\ CalculateDynamicRefundAmount

SpecScorer == InitScorer /\ [][NextScorer]_vars

----------------------------------------------------------------------------
(* The scorers invoked again and again on one input *)

RepeatCalls ==
    { [order_value |-> 400, issue_type |-> "wrong_order",
       customer_expectation |-> default_customer_expectation],
      [order_value |-> 400, issue_type |-> "other",
       customer_expectation |-> FullRefundExpectation] }

RepeatMessageList ==
    << <<"w","r","o","n","g"," ",RUPEE,"4","0","0">>,
       <<"s","p","i","l","l","e","d"," ",RUPEE,"0">>,
       <<"l","a","t","e">>,
       <<"r","e","f","u","n","d">> >>

RepeatMessages == {RepeatMessageList[n] : n \in 1..Len(RepeatMessageList)}

InitRepeat ==
    /\ args \in {[tool_input |-> m] : m \in RepeatMessages} \cup RepeatCalls
    /\ tool = "none"
    /\ result = NoResult
    /\ chat_history = <<>>

NextRepeat ==
    \/ GatherCompensationDetails
    \/ NegotiateFairCompensation
    \/ CalculateDynamicRefundAmount

SpecRepeat == InitRepeat /\ [][NextRepeat]_vars

----------------------------------------------------------------------------
(* The agent: a conversation in which the language model picks the tools *)

\* the tools of agent_core.py's list that this module defines
registered_tools ==
    {"analyze_customer_situation", "provide_generic_solution",
     "gather_compensation_details", "negotiate_fair_compensation",
     "escalate_compensation_dissatisfaction"}

\* tool.func(tool_input): every value the named tool can return for the string
ToolResults(name, input) ==
    CASE name = "analyze_customer_situation" -> {analyze_customer_situation(input)}
      [] name = "provide_generic_solution" -> {[response |-> provide_generic_solution(input)]}
      [] name = "gather_compensation_details" -> gather_compensation_details(input)
      [] name = "negotiate_fair_compensation" -> negotiate_fair_compensation(input)
      [] name = "escalate_compensation_dissatisfaction" ->
             escalate_compensation_dissatisfaction(input)

\* what a customer who turns an offer down says, in lower case (Step 4 of the
\* system message)
rejection_phrases ==
    << <<"n","o","t"," ","e","n","o","u","g","h">>,
       <<"i"," ","w","a","n","t"," ","m","o","r","e">>,
       <<"t","h","i","s"," ","i","s"," ","u","n","f","a","i","r">> >>

WrongOrder400 == <<"w","r","o","n","g"," ",RUPEE,"4","0","0">>

NotEnough == <<"N","o","t"," ","e","n","o","u","g","h">>

Thanks == <<"o","k"," ","t","h","a","n","k","s">>

\* what the customer may say in the bounded conversation
ConversationMessages == {WrongOrder400, NotEnough, Thanks}

\* the longest bounded conversation, in customer messages and tool calls
MaxTurns == 4

CustomerEntries == {n \in 1..Len(chat_history) : chat_history[n].role = "customer"}

\* the customer's latest message
LastCustomerMessage ==
    chat_history[CHOOSE n \in CustomerEntries : \A k \in CustomerEntries : k <= n].content

InitAgent ==
    /\ args = [tool_input |-> <<>>]
    /\ tool = "none"
    /\ result = NoResult
    /\ chat_history = <<>>

\* the customer sends a message
CustomerSays ==
    /\ Len(chat_history) < MaxTurns
    /\ \E m \in ConversationMessages :
          chat_history' = Append(chat_history, [role |-> "customer", content |-> m])
    /\ UNCHANGED <<args, tool, result>>

\* The language model names a tool and the executor calls its func with one
\* string, here the customer's latest message. No code stands between the
\* model's choice and the call: every registered tool can be called at every
\* step.
AgentInvokesTool ==
    /\ Len(chat_history) < MaxTurns
    /\ CustomerEntries # {}
    /\ \E name \in registered_tools :
          /\ tool' = name
          /\ args' = [tool_input |-> LastCustomerMessage]
          /\ result' \in ToolResults(name, LastCustomerMessage)
          /\ chat_history' = Append(chat_history, [role |-> "tool", content |-> name])

NextAgent ==
    \/ CustomerSays
    \/ AgentInvokesTool

SpecAgent == InitAgent /\ [][NextAgent]_vars

----------------------------------------------------------------------------
(* Properties of the classifiers *)

Headings ==
    {"TRACKING REQUEST DETECTED", "ACTUAL PROBLEM DETECTED", "GENERAL INQUIRY DETECTED"}

\* C5: analyze_customer_situation returns exactly one of the three intents:
\* PROBLEM iff the message contains a problem keyword (tracking keywords or
\* not), TRACKING iff it contains a tracking keyword and no problem keyword,
\* GENERAL otherwise; "Driver is very late, where is my order?" is TRACKING.
C5_IntentClassification ==
    tool = "analyze_customer_situation" =>
        LET m == Lower(args.tool_input)
            hasProblem == \E n \in 1..Len(problem_keywords) :
                              IsSubstring(problem_keywords[n], m)
            hasTracking == \E n \in 1..Len(tracking_keywords) :
                              IsSubstring(tracking_keywords[n], m)
        IN  /\ result.heading \in Headings
            /\ (result.heading = "ACTUAL PROBLEM DETECTED") <=> hasProblem
            /\ (result.heading = "TRACKING REQUEST DETECTED")
                   <=> (hasTracking /\ ~hasProblem)
            /\ (result.heading = "GENERAL INQUIRY DETECTED")
                   <=> (~hasTracking /\ ~hasProblem)
            /\ (args.tool_input = DriverLateMessage
                   => result.heading = "TRACKING REQUEST DETECTED")

\* a message with a tracking word and a problem word ("Where is my order, it
\* arrived spilled") has been analysed and reported as a problem
C5_Witness ==
    /\ tool = "analyze_customer_situation"
    /\ args.tool_input = WhereSpilledMessage
    /\ result.heading = "ACTUAL PROBLEM DETECTED"

\* the categories of analyze_customer_situation in their priority order, each
\* with its keywords
CategoryOrder ==
    << [category |-> "Spilled Food", words |-> analyze_spilled_words],
       [category |-> "Wrong Order", words |-> analyze_wrong_words],
       [category |-> "Packaging Issue", words |-> analyze_packaging_words],
       [category |-> "Cold Food", words |-> analyze_cold_words],
       [category |-> "Missing Items", words |-> analyze_missing_words],
       [category |-> "Quality Issue", words |-> analyze_quality_words] >>

\* the first category of CategoryOrder with a keyword in m, or fallback
FirstMatching(m, fallback) ==
    LET hits == {i \in 1..Len(CategoryOrder) : AnyIn(CategoryOrder[i].words, m)}
    IN  IF hits = {} THEN fallback
        ELSE CategoryOrder[CHOOSE i \in hits : \A j \in hits : i <= j].category

ForbiddenWords ==
    << <<"c","o","m","p","e","n","s","a","t","i","o","n">>,
       <<"c","o","m","p","e","n","s","a","t","e">>,
       <<"r","e","f","u","n","d">>,
       <<"m","o","n","e","y">>,
       <<"v","o","u","c","h","e","r">>,
       <<"c","r","e","d","i","t">> >>

GenericTexts ==
    {generic_text_spilled_food, generic_text_wrong_order, generic_text_cold_food,
     generic_text_late_delivery, generic_text_missing_items, generic_text_general}

Classifiers ==
    {"analyze_customer_situation", "provide_generic_solution",
     "negotiate_fair_compensation"}

\* the category a classifier's result shows, "none" when the result shows no
\* category (a tracking request or a general inquiry)
CategoryOf(name, r) ==
    CASE name = "analyze_customer_situation" ->
             IF r.heading = "ACTUAL PROBLEM DETECTED" THEN r.issue_type ELSE "none"
      [] name = "provide_generic_solution" ->
             CHOOSE c \in {"spilled_food", "wrong_order", "late_delivery", "cold_food",
                           "missing_items", "general"} : generic_text(c) = r.response
      [] name = "negotiate_fair_compensation" -> r.issue_type
      [] OTHER -> "none"

AllKinds == {"spilled", "wrong", "packaging", "cold", "missing", "quality", "late"}

\* The kinds of problem a category name stands for. The three classifiers
\* name their categories differently and have different vocabularies: a
\* fallback category stands for any kind, and the quality issue of
\* negotiate_fair_compensation covers spilled, damaged and cold food.
Kinds(category) ==
    CASE category \in {"Spilled Food", "spilled_food"} -> {"spilled"}
      [] category \in {"Wrong Order", "wrong_order"} -> {"wrong"}
      [] category = "Packaging Issue" -> {"packaging"}
      [] category \in {"Cold Food", "cold_food"} -> {"cold"}
      [] category \in {"Missing Items", "missing_items"} -> {"missing"}
      [] category = "Quality Issue" -> {"quality", "spilled", "packaging", "cold"}
      [] category \in {"Delivery Delay", "late_delivery"} -> {"late"}
      [] OTHER -> AllKinds

\* C7: the same message yields the same issue category whichever of
\* analyze_customer_situation, provide_generic_solution and
\* negotiate_fair_compensation evaluates it: the categories of two
\* classifiers run one after the other on one message stand for a common
\* kind of problem.
C7_ClassifiersAgree ==
    [][(tool \in Classifiers /\ tool' \in Classifiers /\ args' = args)
          => Kinds(CategoryOf(tool, result)) \cap Kinds(CategoryOf(tool', result')) # {}]_vars

----------------------------------------------------------------------------
(* Properties of the scorer *)

\* amount is at most 50% of order_value
AtMostHalf(amount, order_value) == 100 * amount <= 50 * order_value

\* C1: every compensation the code computes is at most 50% of the order
\* value: the three tier offers of negotiate_fair_compensation, the refund of
\* calculate_dynamic_compensation, the vouchers of offer_goodwill_voucher.
C1_CeilingInvariant ==
    /\ tool = "negotiate_fair_compensation" =>
          /\ AtMostHalf(result.tier_1_offer, result.order_value)
          /\ AtMostHalf(result.tier_2_offer, result.order_value)
          /\ AtMostHalf(result.tier_3_offer, result.order_value)
    /\ tool = "calculate_dynamic_compensation" =>
          AtMostHalf(result.refund_amount, result.order_value)
    /\ tool = "offer_goodwill_voucher" =>
          /\ result.voucher_percentage <= 50
          /\ result.escalation_percentage <= 50
          /\ AtMostHalf(result.initial_voucher, result.order_value)
          /\ AtMostHalf(result.max_voucher, result.order_value)

\* C2: the three tier offers of negotiate_fair_compensation never decrease:
\* tier_1_offer <= tier_2_offer <= tier_3_offer.
C2_TierMonotonicity ==
    tool = "negotiate_fair_compensation" =>
        /\ result.tier_1_offer <= result.tier_2_offer
        /\ result.tier_2_offer <= result.tier_3_offer

\* the wrong-order complaint on an order of 400 has been negotiated, and its
\* three offers rise strictly
C2_Witness ==
    /\ tool = "negotiate_fair_compensation"
    /\ args.tool_input = WrongOrder400
    /\ result.order_value = 400
    /\ result.tier_1_offer < result.tier_2_offer
    /\ result.tier_2_offer < result.tier_3_offer

\* C3: the Tier-3 offer of negotiate_fair_compensation is exactly 50% of the
\* order value (the integer part of the half, as int() leaves it).
C3_TierThreeIsHalf ==
    tool = "negotiate_fair_compensation" =>
        result.tier_3_offer = result.order_value \div 2

\* what of a result enters the offer made to the customer
OfferOf(r) ==
    IF tool = "negotiate_fair_compensation"
    THEN <<r.order_value, r.tier_1_offer, r.tier_2_offer, r.tier_3_offer,
           r.goodwill_voucher>>
    ELSE IF tool = "calculate_dynamic_refund_amount"
    THEN <<r.order_value, r.percentage, r.refund_amount, r.goodwill_credit>>
    ELSE <<r.order_value>>

\* C8: two invocations of gather_compensation_details, of
\* negotiate_fair_compensation or of calculate_dynamic_refund_amount with
\* identical inputs yield the identical order value, percentage, amounts and
\* goodwill credit.
C8_SameInputSameOffer ==
    [][(tool # "none" /\ tool' = tool /\ args' = args)
           => OfferOf(result') = OfferOf(result)]_vars

\* C9: for the wrong-order complaint on an order of 400 the Tier-1 offer is
\* below 40% of the order, the Tier-2 offer at most 40%, the Tier-3 offer
\* exactly 200; the escalation that follows its rejection records the last
\* offer as 50% of the order value.
C9_FullNegotiationScenario ==
    /\ (tool = "negotiate_fair_compensation" /\ args.tool_input = WrongOrder400) =>
          /\ result.order_value = 400
          /\ result.issue_type = "Wrong Order"
          /\ 100 * result.tier_1_offer < 40 * result.order_value
          /\ 100 * result.tier_2_offer <= 40 * result.order_value
          /\ result.tier_3_offer = 200
    /\ tool = "escalate_compensation_dissatisfaction" =>
          result.max_compensation_offered = "50% of order value"

----------------------------------------------------------------------------
(* Properties of the conversation *)

ToolEntries == {n \in 1..Len(chat_history) : chat_history[n].role = "tool"}

\* entry n is the customer turning down the offer of a
\* negotiate_fair_compensation call, the latest tool call before it: the
\* offer that call presents ends with Tier 3
RejectsTierThree(n) ==
    /\ n \in CustomerEntries
    /\ AnyIn(rejection_phrases, Lower(chat_history[n].content))
    /\ \E k \in ToolEntries :
          /\ k < n
          /\ \A j \in ToolEntries : j < n => j <= k
          /\ chat_history[k].content = "negotiate_fair_compensation"

\* C4: once the customer has rejected the Tier-3 offer, the next tool the
\* agent invokes is escalate_compensation_dissatisfaction: no further offer
\* follows the rejection.
C4_MandatoryEscalation ==
    \A n \in 1..Len(chat_history) :
        RejectsTierThree(n) =>
            \A k \in ToolEntries :
                (k > n /\ \A j \in ToolEntries : j > n => k <= j)
                    => chat_history[k].content = "escalate_compensation_dissatisfaction"

----------------------------------------------------------------------------
(* Properties of the order value *)

HasNoDigit(s) == \A n \in 1..Len(s) : ~IsDigit(s[n])

Scorers == {"gather_compensation_details", "negotiate_fair_compensation"}

\* C11: when no order value can be extracted from the text (it holds no
\* numeral), gather_compensation_details and negotiate_fair_compensation use
\* one fixed default order value, the same on every call and in both, and
\* return an offer.
C11_FixedDefaultOrderValue ==
    (tool \in Scorers /\ HasNoDigit(args.tool_input))
        => result.order_value = negotiate_default_order_value

\* amount is orderValue * percentage / 100 rounded to a nearest integer
\* (either neighbour at a tie)
IsRounded(amount, orderValue, percentage) ==
    /\ 100 * amount - orderValue * percentage <= 50
    /\ orderValue * percentage - 100 * amount <= 50

\* C12: the base compensation of negotiate_fair_compensation and the
\* refund_amount of calculate_dynamic_refund_amount equal
\* round(orderValue * percentage / 100), the nearest integer.
C12_AmountIsRounded ==
    /\ tool = "negotiate_fair_compensation" =>
           IsRounded(result.base_compensation, result.order_value,
                     negotiate_issue(Lower(args.tool_input)).base_percentage)
    /\ tool = "calculate_dynamic_refund_amount" =>
           IsRounded(result.refund_amount, result.order_value, result.percentage)

----------------------------------------------------------------------------
(* Properties of the compensation tables *)

RefundTableKeys ==
    {"wrong_order", "quality_issue", "delivery_delay", "missing_items",
     "spilled_food", "cold_food", "damaged_packaging"}

CompensationTableKeys ==
    {"spilled", "damaged", "wrong_order", "missing_items", "cold_food",
     "late_delivery", "poor_quality"}

\* C13: for an issue_type that is no key of the compensation table,
\* calculate_dynamic_refund_amount and calculate_dynamic_compensation return
\* a result made from the table's default entry, and the percentage of that
\* entry is at most 50% for every customer_expectation.
C13_UnknownIssueType ==
    /\ (tool = "calculate_dynamic_refund_amount"
            /\ args.issue_type \notin RefundTableKeys) =>
           /\ result.percentage \in 40..50
           /\ AtMostHalf(result.refund_amount, result.order_value)
    /\ (tool = "calculate_dynamic_compensation"
            /\ args.issue_type \notin CompensationTableKeys) =>
           /\ result.compensation_type = "standard"
           /\ AtMostHalf(result.refund_amount, result.order_value)

\* a full refund of an order of 400 has been asked for an issue type that is
\* no key, and the refund is 50% of the order
C13_Witness ==
    /\ tool = "calculate_dynamic_refund_amount"
    /\ args.issue_type = "unknown"
    /\ args.customer_expectation = FullRefundExpectation
    /\ result.order_value = 400
    /\ result.percentage = 50
    /\ result.refund_amount = 200

----------------------------------------------------------------------------
(* collect_evidence, and the stages given an empty message *)

\* Python's None where a str is expected: no sequence of characters equals it
None == <<"None">>

evidence_placeholders ==
    << <<"n","u","l","l">>,
       <<"n","o","n","e">>,
       <<>> >>

general_complaint == <<"g","e","n","e","r","a","l"," ","c","o","m","p","l","a","i","n","t">>

order_info_keywords ==
    << <<"o","r","d","e","r">>,
       <<"p","a","i","d">>,
       <<"r","u","p","e","e","s">>,
       <<"r","s">>,
       <<"$">>,
       <<"r","e","s","t","a","u","r","a","n","t">>,
       <<"k","i","t","c","h","e","n">> >>

issue_info_keywords ==
    << <<"w","r","o","n","g">>,
       <<"l","a","t","e">>,
       <<"d","e","l","a","y">>,
       <<"c","o","l","d">>,
       <<"m","i","s","s","i","n","g">>,
       <<"q","u","a","l","i","t","y">>,
       <<"s","p","i","l","l","e","d">> >>

\* The query after the placeholder test, as it is printed, and the report
\* returned. `not query` holds for None and for the empty string.
collect_evidence(query) ==
    LET replaced == IF query = None \/ query = <<>>
                       \/ IsOneOf(Lower(query), evidence_placeholders)
                    THEN general_complaint ELSE query
        has_order_info == AnyIn(order_info_keywords, Lower(replaced))
        has_issue_info == AnyIn(issue_info_keywords, Lower(replaced))
    IN  IF has_order_info /\ has_issue_info
        THEN [heading |-> "COMPLAINT ANALYSIS COMPLETE", query |-> replaced]
        ELSE [heading |-> "INFORMATION GATHERING", query |-> replaced]

\* The exception a stage raises on its input, "none" when it returns. Given
\* None, .lower() raises AttributeError and `in` raises TypeError; only
\* collect_evidence tests its input first.
raised_exception(name, input) ==
    IF input # None \/ name = "collect_evidence" THEN "none"
    ELSE IF name \in {"gather_compensation_details", "negotiate_fair_compensation"}
    THEN "TypeError"
    ELSE "AttributeError"

pipeline_stages == {"collect_evidence"} \cup registered_tools

\* what a call of the stage ends with: a raised exception or a returned value
StageResults(name, input) ==
    IF raised_exception(name, input) # "none"
    THEN {[raised |-> raised_exception(name, input)]}
    ELSE IF name = "collect_evidence" THEN {collect_evidence(input)}
    ELSE ToolResults(name, input)

MalformedMessageList ==
    << None,
       <<>>,
       <<"n","u","l","l">>,
       <<"n","o","n","e">>,
       <<"N","U","L","L">>,
       <<"N","o","n","e">> >>

MalformedMessages == {MalformedMessageList[n] : n \in 1..Len(MalformedMessageList)}

InitMalformed ==
    /\ args \in {[tool_input |-> m] : m \in MalformedMessages}
    /\ tool = "none"
    /\ result = NoResult
    /\ chat_history = <<>>

\* a stage of the pipeline is called with the message
StageCalled ==
    /\ tool = "none"
    /\ \E name \in pipeline_stages :
          /\ tool' = name
          /\ result' \in StageResults(name, args.tool_input)
    /\ UNCHANGED <<args, chat_history>>

NextMalformed == StageCalled

SpecMalformed == InitMalformed /\ [][NextMalformed]_vars

\* C14: for an empty or null message (None, "", "null", "none") every stage
\* returns a value instead of raising; the message is replaced by the
\* placeholder "general complaint", and analyze_customer_situation reports a
\* general inquiry about that placeholder.
C14_MalformedMessage ==
    tool # "none" =>
        /\ "raised" \notin DOMAIN result
        /\ tool = "collect_evidence" => result.query = general_complaint
        /\ tool = "analyze_customer_situation" =>
               /\ result.heading = "GENERAL INQUIRY DETECTED"
               /\ result.customer_message = general_complaint

----------------------------------------------------------------------------
(* Customer sessions served by the one agent of the module *)

Sessions == {"session_1", "session_2"}

\* the most runs of the agent in a bounded behaviour
MaxRuns == 3

InitSessions ==
    /\ args = [tool_input |-> <<>>]
    /\ tool = "none"
    /\ result = NoResult
    /\ chat_history = <<>>

\* agent.run on a message of one session. agent_core.py creates one
\* ConversationBufferMemory and one agent when it is imported: the run loads
\* all of that memory into the prompt and saves the message and the reply to
\* it. The memory keeps no session with a message; the session field records
\* where each message came from.
AgentRun ==
    /\ Len(chat_history) < 2 * MaxRuns
    /\ \E session \in Sessions, message \in ConversationMessages :
          /\ tool' = "agent"
          /\ args' = [input |-> message, session |-> session,
                      chat_history |-> chat_history]
          /\ result' = [output |-> "reply"]
          /\ chat_history' = chat_history \o
                 << [role |-> "human", content |-> message, session |-> session],
                    [role |-> "ai", content |-> "reply", session |-> session] >>

NextSessions == AgentRun

SpecSessions == InitSessions /\ [][NextSessions]_vars

\* C15: conversation state is one instance per customer session: the memory
\* a run of the agent reads for one session holds no message of another
\* session.
C15_SessionIsolation ==
    tool = "agent" =>
        \A n \in 1..Len(args.chat_history) :
            args.chat_history[n].session = args.session

----------------------------------------------------------------------------
(* Properties of the negotiation's lifecycle *)

\* the tool called at entry n of the conversation, "none" for a message
ToolAt(n) ==
    IF chat_history[n].role = "tool" THEN chat_history[n].content ELSE "none"

\* C16: the negotiation goes from NOT_STARTED to DETAILS_GATHERED to
\* OFFER_MADE and ends ACCEPTED or ESCALATED: no offer of
\* negotiate_fair_compensation comes before gather_compensation_details has
\* run in the conversation, and no negotiation tool runs after the escalation.
C16_LifecycleOrdering ==
    \A n \in 1..Len(chat_history) :
        /\ ToolAt(n) = "negotiate_fair_compensation" =>
               \E k \in 1..(n - 1) : ToolAt(k) = "gather_compensation_details"
        /\ ToolAt(n) = "escalate_compensation_dissatisfaction" =>
               \A k \in (n + 1)..Len(chat_history) :
                   ToolAt(k) \notin {"gather_compensation_details",
                                     "negotiate_fair_compensation",
                                     "escalate_compensation_dissatisfaction"}

\* C17: an escalation case is created only after a Tier-3 (50%) offer was
\* made and rejected in the conversation, and the record carries priority
\* High and a last offer of 50% of order value.
C17_EscalationOnlyAfterRejection ==
    /\ \A n \in 1..Len(chat_history) :
           ToolAt(n) = "escalate_compensation_dissatisfaction" =>
               \E k \in 1..(n - 1) : RejectsTierThree(k)
    /\ tool = "escalate_compensation_dissatisfaction" =>
           /\ result.priority = "High (Compensation Dispute)"
           /\ result.max_compensation_offered = default_attempted_compensation

----------------------------------------------------------------------------
(* Properties of the tiers *)

\* C18: in negotiate_fair_compensation the Tier-1 offer is strictly below 50%
\* of the order value, and the Tier-2 offer lies between the Tier-1 offer and
\* 40% of the order value.
C18_TierBounds ==
    tool = "negotiate_fair_compensation" =>
        /\ 100 * result.tier_1_offer < 50 * result.order_value
        /\ result.tier_1_offer <= result.tier_2_offer
        /\ 100 * result.tier_2_offer <= 40 * result.order_value

\* C20: when the order value taken from the input is zero, the scorer falls
\* back to a fixed minimum flat credit and still makes an offer: the tier
\* offers negotiate_fair_compensation presents are not the zero amounts
\* computed from that value.
C20_NonPositiveOrderValue ==
    (tool = "negotiate_fair_compensation" /\ result.order_value = 0) =>
        /\ result.tier_1_offer > 0
        /\ result.tier_2_offer > 0
        /\ result.tier_3_offer > 0

----------------------------------------------------------------------------
(* Messages that name an amount in each currency form *)

ExtractValues == {7, 45, 300}

WrongPrefix == <<"w","r","o","n","g"," ">>

\* a text and the amount of its first currency-marked numeral
ExtractCases ==
    UNION { { [text |-> WrongPrefix \o <<RUPEE>> \o Digits(v), amount |-> v],
              [text |-> WrongPrefix \o <<"r","s"," ">> \o Digits(v), amount |-> v],
              [text |-> WrongPrefix \o <<"R","s">> \o Digits(v), amount |-> v],
              [text |-> WrongPrefix \o Digits(v) \o <<" ","r","u","p","e","e","s">>,
               amount |-> v],
              [text |-> WrongPrefix \o <<RUPEE>> \o Digits(v) \o <<" ","n","o","t"," ",RUPEE>>
                            \o Digits(v + 1),
               amount |-> v],
              [text |-> WrongPrefix \o Digits(v) \o <<" ","r","u","p","e","e","s"," ",RUPEE>>
                            \o Digits(v + 1),
               amount |-> v] } : v \in ExtractValues }

InitExtract ==
    /\ args \in {[tool_input |-> c.text] : c \in ExtractCases}
    /\ tool = "none"
    /\ result = NoResult
    /\ chat_history = <<>>

\* each scorer is applied once to the text drawn
NextExtract ==
    \/ tool = "none" /\ GatherCompensationDetails
    \/ tool = "none" /\ NegotiateFairCompensation

SpecExtract == InitExtract /\ [][NextExtract]_vars

\* C19: a currency-marked numeral is recognised in each of its three forms
\* (the rupee sign, "rs", "rupees"), the first one in the text wins, and
\* gather_compensation_details and negotiate_fair_compensation take the same
\* order value from the same text.
C19_OrderValueExtraction ==
    tool \in Scorers =>
        \A c \in ExtractCases :
            args.tool_input = c.text => result.order_value = c.amount

----------------------------------------------------------------------------
(* Properties of the goodwill credit *)

\* C21: the goodwill credit of negotiate_fair_compensation is one fixed
\* amount: a call returns the same credit as the call before it, whatever the
\* order value and the issue type.
C21_FixedGoodwillCredit ==
    [][(tool = "negotiate_fair_compensation" /\ tool' = "negotiate_fair_compensation")
           => result'.goodwill_voucher = result.goodwill_voucher]_vars

----------------------------------------------------------------------------
(* orchestrate_resolution_plan *)

orchestrate_critical_words ==
    << <<"s","p","i","l","l","e","d">>,
       <<"p","o","i","s","o","n","e","d">>,
       <<"a","l","l","e","r","g","i","c">>,
       <<"s","i","c","k">>,
       <<"e","m","e","r","g","e","n","c","y">> >>

orchestrate_high_words ==
    << <<"w","r","o","n","g"," ","o","r","d","e","r">>,
       <<"m","i","s","s","i","n","g">>,
       <<"d","a","m","a","g","e","d">>,
       <<"t","e","r","r","i","b","l","e">>,
       <<"a","w","f","u","l">>,
       <<"d","i","s","g","u","s","t","e","d">> >>

orchestrate_medium_words ==
    << <<"c","o","l","d">>,
       <<"l","a","t","e">>,
       <<"d","e","l","a","y","e","d">>,
       <<"p","o","o","r"," ","q","u","a","l","i","t","y">>,
       <<"d","i","s","a","p","p","o","i","n","t","e","d">> >>

orchestrate_anger_words ==
    << <<"a","n","g","r","y">>,
       <<"f","u","r","i","o","u","s">>,
       <<"o","u","t","r","a","g","e","d">>,
       <<"d","i","s","g","u","s","t","e","d">> >>

orchestrate_frustration_words ==
    << <<"f","r","u","s","t","r","a","t","e","d">>,
       <<"a","n","n","o","y","e","d">>,
       <<"d","i","s","a","p","p","o","i","n","t","e","d">> >>

orchestrate_repeat_words ==
    << <<"a","g","a","i","n">>,
       <<"a","l","w","a","y","s">>,
       <<"e","v","e","r","y"," ","t","i","m","e">>,
       <<"r","e","p","e","a","t","e","d","l","y">> >>

\* the if/elif chain that sets severity_score and issue_type
orchestrate_severity(details_lower) ==
    IF AnyIn(orchestrate_critical_words, details_lower)
    THEN [severity_score |-> 100, issue_type |-> "critical_failure"]
    ELSE IF AnyIn(orchestrate_high_words, details_lower)
    THEN [severity_score |-> 75, issue_type |-> "major_service_failure"]
    ELSE IF AnyIn(orchestrate_medium_words, details_lower)
    THEN [severity_score |-> 50, issue_type |-> "quality_issue"]
    ELSE [severity_score |-> 25, issue_type |-> "minor_concern"]

\* a variant that tests for frustration also when anger was found
orchestrate_emotion_both(details_lower) ==
    LET anger == AnyIn(orchestrate_anger_words, details_lower)
        frustration == AnyIn(orchestrate_frustration_words, details_lower)
    IN  [indicators |-> (IF anger THEN <<"high_anger">> ELSE <<>>)
                            \o (IF frustration THEN <<"frustration">> ELSE <<>>),
         bonus |-> (IF anger THEN 15 ELSE 0) + (IF frustration THEN 10 ELSE 0)]

\* the if/elif that detects the emotional indicator and adds to the score
orchestrate_emotion(details_lower) ==
    IF AnyIn(orchestrate_anger_words, details_lower)
    THEN [indicators |-> <<"high_anger">>, bonus |-> 15]
    ELSE IF AnyIn(orchestrate_frustration_words, details_lower)
    THEN [indicators |-> <<"frustration">>, bonus |-> 10]
    ELSE [indicators |-> <<>>, bonus |-> 0]

\* the if that detects a repeat customer
orchestrate_repeat(details_lower) ==
    IF AnyIn(orchestrate_repeat_words, details_lower)
    THEN [indicators |-> <<"repeat_issue">>, bonus |-> 20]
    ELSE [indicators |-> <<>>, bonus |-> 0]

\* the if/elif chain on the score: compensation_level, the number of
\* plan_steps and the step that names the compensation
orchestrate_plan(severity_score) ==
    IF severity_score >= 90
    THEN [compensation_level |-> "Premium Plus", steps |-> 6,
          compensation_step |-> "Full refund + 200% compensation credit"]
    ELSE IF severity_score >= 70
    THEN [compensation_level |-> "Premium", steps |-> 6,
          compensation_step |-> "Full refund + 150% compensation credit"]
    ELSE IF severity_score >= 45
    THEN [compensation_level |-> "Enhanced", steps |-> 5,
          compensation_step |-> "Full refund + 100% compensation credit"]
    ELSE [compensation_level |-> "Basic", steps |-> 4,
          compensation_step |-> "Partial refund or service credit"]

\* issue_type.replace('_', ' ').title() on the issue types of the function
orchestrate_title(issue_type) ==
    CASE issue_type = "critical_failure" -> "Critical Failure"
      [] issue_type = "major_service_failure" -> "Major Service Failure"
      [] issue_type = "quality_issue" -> "Quality Issue"
      [] issue_type = "minor_concern" -> "Minor Concern"

\* the values the returned text shows
orchestrate_resolution_plan(issue_details) ==
    LET details_lower == Lower(issue_details)
        severity == orchestrate_severity(details_lower)
        emotion == orchestrate_emotion(details_lower)
        repeat == orchestrate_repeat(details_lower)
        severity_score == severity.severity_score + emotion.bonus + repeat.bonus
        plan == orchestrate_plan(severity_score)
    IN  [severity_score |-> severity_score,
         issue_type |-> orchestrate_title(severity.issue_type),
         compensation_level |-> plan.compensation_level,
         emotional_indicators |-> emotion.indicators \o repeat.indicators,
         plan_steps |-> plan.steps,
         compensation_step |-> plan.compensation_step]

SeverityWords ==
    << <<"s","p","i","l","l","e","d">>,
       <<"m","i","s","s","i","n","g">>,
       <<"l","a","t","e">>,
       <<"d","i","s","g","u","s","t","e","d">>,
       <<"d","i","s","a","p","p","o","i","n","t","e","d">>,
       <<"a","n","g","r","y">>,
       <<"f","r","u","s","t","r","a","t","e","d">>,
       <<"a","g","a","i","n">> >>

\* the most words of a bounded message to orchestrate_resolution_plan
MaxSeverityWords == 3

RECURSIVE SeverityTexts(_)
\* the messages of n words of SeverityWords
SeverityTexts(n) ==
    IF n = 0 THEN {<<>>}
    ELSE {IF Len(t) = 0 THEN SeverityWords[w] ELSE t \o <<" ">> \o SeverityWords[w] :
              t \in SeverityTexts(n - 1) \ {<<>>}, w \in 1..Len(SeverityWords)}
         \cup {SeverityWords[w] : w \in 1..Len(SeverityWords)}
         \cup {<<>>}

SeverityMessages == SeverityTexts(MaxSeverityWords)

InitSeverity ==
    /\ args \in {[tool_input |-> m] : m \in SeverityMessages}
    /\ tool = "none"
    /\ result = NoResult
    /\ chat_history = <<>>

OrchestrateResolutionPlan ==
    /\ "tool_input" \in DOMAIN args
    /\ tool' = "orchestrate_resolution_plan"
    /\ result' = orchestrate_resolution_plan(args.tool_input)
    /\ UNCHANGED <<args, chat_history>>

\* each function is applied once to the message drawn
NextSeverity ==
    \/ tool = "none" /\ OrchestrateResolutionPlan
    \/ tool = "none" /\ NegotiateFairCompensation

SpecSeverity == InitSeverity /\ [][NextSeverity]_vars

\* C22: the severity score of orchestrate_resolution_plan is the base of the
\* first matching severity class (100, 75, 50, else 25), plus one emotional
\* bonus (15 with an anger word, otherwise 10 with a frustration word, never
\* both), plus 20 with repeat-complaint language: always from 25 to 135.
C22_SeverityScore ==
    tool = "orchestrate_resolution_plan" =>
        LET m == Lower(args.tool_input)
            base == CASE AnyIn(orchestrate_critical_words, m) -> 100
                      [] AnyIn(orchestrate_high_words, m) -> 75
                      [] AnyIn(orchestrate_medium_words, m) -> 50
                      [] OTHER -> 25
            emotional == IF AnyIn(orchestrate_anger_words, m) THEN 15
                         ELSE IF AnyIn(orchestrate_frustration_words, m) THEN 10
                         ELSE 0
            repeated == IF AnyIn(orchestrate_repeat_words, m) THEN 20 ELSE 0
            shown == {result.emotional_indicators[n] :
                          n \in 1..Len(result.emotional_indicators)}
        IN  /\ result.severity_score = base + emotional + repeated
            /\ result.severity_score \in 25..135
            /\ ~({"high_anger", "frustration"} \subseteq shown)

\* a message with an anger word, a frustration word and repeat language has
\* been scored: 25 + 15 + 20, with the anger indicator alone
C22_Witness ==
    /\ tool = "orchestrate_resolution_plan"
    /\ args.tool_input = <<"a","n","g","r","y"," ","f","r","u","s","t","r","a","t","e","d",
                           " ","a","g","a","i","n">>
    /\ result.severity_score = 60
    /\ result.emotional_indicators = <<"high_anger", "repeat_issue">>

----------------------------------------------------------------------------
(* Properties of the severity score *)

\* the anger, frustration and repeat-complaint words
EmotionWords ==
    {orchestrate_anger_words[n] : n \in 1..Len(orchestrate_anger_words)}
        \cup {orchestrate_frustration_words[n] : n \in 1..Len(orchestrate_frustration_words)}
        \cup {orchestrate_repeat_words[n] : n \in 1..Len(orchestrate_repeat_words)}

\* the message with one more word at its end
WithWord(m, w) == IF Len(m) = 0 THEN w ELSE m \o <<" ">> \o w

\* what negotiate_fair_compensation offers apart from its random draws
TierOffers(r) ==
    <<r.issue_type, r.base_compensation, r.tier_1_offer, r.tier_2_offer, r.tier_3_offer>>

\* the part of C23 about negotiate_fair_compensation alone
NegotiationIgnoresEmotion ==
    tool = "negotiate_fair_compensation" =>
        \A w \in EmotionWords :
            \A r \in negotiate_fair_compensation(WithWord(args.tool_input, w)) :
                TierOffers(r) = TierOffers(result)

\* C23: severity is advisory only: an anger, frustration or repeat-complaint
\* word added to the input leaves the issue type, base amount and tier offers
\* of negotiate_fair_compensation as they were, and leaves the compensation
\* level and the compensation named by orchestrate_resolution_plan as they
\* were, since none of them is derived from the severity score.
C23_SeverityIsAdvisory ==
    /\ NegotiationIgnoresEmotion
    /\ tool = "orchestrate_resolution_plan" =>
          \A w \in EmotionWords :
              LET r == orchestrate_resolution_plan(WithWord(args.tool_input, w))
              IN  /\ r.compensation_level = result.compensation_level
                  /\ r.compensation_step = result.compensation_step

----------------------------------------------------------------------------
(* Properties of the statements after the three branches *)

\* C24: the severity-classification and compensation block at the end of
\* analyze_customer_situation is dead: for every message one of the three
\* intent branches returns first, so the call raises nothing from the
\* unassigned names of that block, never returns the "DYNAMIC ANALYSIS
\* COMPLETE" response and never carries a compensation amount.
C24_TrailingBlockIsDead ==
    tool = "analyze_customer_situation" =>
        /\ "raised" \notin DOMAIN result
        /\ result.heading \in Headings
        /\ result.heading # "DYNAMIC ANALYSIS COMPLETE"
        /\ DOMAIN result \cap {"compensation", "refund_amount", "severity"} = {}

\* a message with neither a tracking word nor a problem word has been
\* analysed: the last of the three branches returned
C24_Witness ==
    /\ tool = "analyze_customer_situation"
    /\ ~is_tracking_request(Lower(args.tool_input))
    /\ ~is_actual_problem(Lower(args.tool_input))
    /\ Len(args.tool_input) > 0
    /\ result.heading = "GENERAL INQUIRY DETECTED"

----------------------------------------------------------------------------
(* calculate_dynamic_refund_amount on every issue type *)

BothExpectation == <<"p","a","r","t","i","a","l"," ","o","r"," ","c","o","m","p","l","e","t","e"," ","r","e","f","u","n","d">>
SomeExpectation == <<"S","o","m","e"," ","c","o","m","p","e","n","s","a","t","i","o","n">>

\* expectation texts: none of the four words, a full refund, a partial one,
\* both at once, and one in capitals
RefundExpectations ==
    {default_customer_expectation, FullRefundExpectation, PartialExpectation,
     BothExpectation, SomeExpectation}

\* every key of the table and a string that is no key
RefundIssueTypes == RefundTableKeys \cup {"unknown"}

\* the largest order value of these calls
MaxRefundValue == 100

InitRefund ==
    /\ args \in {[order_value |-> v, issue_type |-> t, customer_expectation |-> e] :
                    v \in 0..MaxRefundValue, t \in RefundIssueTypes,
                    e \in RefundExpectations}
    /\ tool = "none"
    /\ result = NoResult
    /\ chat_history = <<>>

NextRefund == tool = "none" /\ CalculateDynamicRefundAmount

SpecRefund == InitRefund /\ [][NextRefund]_vars

\* C25: for every issue type and every expectation text the percentage of
\* calculate_dynamic_refund_amount lies between the table's min and the lesser
\* of the table's max and 50, the minimal tier taking the least and the maximum
\* tier the most; "full refund" / "complete" takes precedence over "partial" /
\* "some"; and for every non-negative order value the approval status is
\* "Pre-approved".
C25_RefundTierSelection ==
    tool = "calculate_dynamic_refund_amount" =>
        LET comp_range == refund_compensation_matrix(args.issue_type)
            cap == IF comp_range.max < 50 THEN comp_range.max ELSE 50
            e == Lower(args.customer_expectation)
            full == IsSubstring(lit_full_refund, e) \/ IsSubstring(lit_complete, e)
            part == IsSubstring(lit_partial, e) \/ IsSubstring(lit_some, e)
        IN  /\ comp_range.min <= result.percentage
            /\ result.percentage <= cap
            /\ result.tier \in {"minimal", "standard", "maximum (50% cap)"}
            /\ result.tier = "minimal" => result.percentage = comp_range.min
            /\ result.tier = "maximum (50% cap)" => result.percentage = cap
            /\ full => result.tier = "maximum (50% cap)"
            /\ (part /\ ~full) => result.tier = "minimal"
            /\ result.pre_approved

\* an expectation that names a partial and a complete refund has been
\* answered with the maximum tier: 50% of an order of 100, pre-approved
C25_Witness ==
    /\ tool = "calculate_dynamic_refund_amount"
    /\ args.customer_expectation = BothExpectation
    /\ args.issue_type = "quality_issue"
    /\ result.order_value = 100
    /\ result.tier = "maximum (50% cap)"
    /\ result.refund_amount = 50
    /\ result.pre_approved

----------------------------------------------------------------------------
(* The tool list and the way the agent calls a tool *)

\* the func of each Tool of the list, in the list's order
tools ==
    << "analyze_customer_situation", "provide_generic_solution", "ask_for_order_details",
       "check_customer_history", "check_driver_history", "check_merchant_history",
       "track_delivery_status", "analyze_gps_data", "check_weather_conditions",
       "contact_driver", "contact_merchant", "verify_customer_identity",
       "offer_compensation_voucher", "issue_instant_refund", "exonerate_driver",
       "log_merchant_packaging_feedback", "log_incident_report", "analyze_order_discrepancy",
       "assess_refund_eligibility", "check_merchant_substitution_policy", "validate_customer_complaint",
       "check_traffic", "get_merchant_status", "reroute_driver",
       "get_nearby_merchants", "initiate_mediation_flow", "find_nearby_locker",
       "analyze_image_evidence", "orchestrate_resolution_plan", "handle_wrong_order_situation",
       "gather_compensation_details", "negotiate_fair_compensation", "explain_business_compensation_policy",
       "calculate_dynamic_refund_amount", "escalate_to_human", "escalate_compensation_dissatisfaction" >>

\* the parameters in the def of each registered function: those without a
\* default and those with one
positional_parameters(name) ==
    CASE name = "check_merchant_substitution_policy" -> [required |-> 2, optional |-> 0]
      [] name = "reroute_driver" -> [required |-> 2, optional |-> 0]
      [] name = "calculate_dynamic_refund_amount" -> [required |-> 2, optional |-> 1]
      [] name = "check_traffic" -> [required |-> 1, optional |-> 1]
      [] name = "get_nearby_merchants" -> [required |-> 1, optional |-> 1]
      [] name = "escalate_compensation_dissatisfaction" -> [required |-> 1, optional |-> 1]
      [] OTHER -> [required |-> 1, optional |-> 0]

\* Tool.run: func(tool_input), one positional argument. Python raises
\* TypeError before the body runs when a parameter without default is left
\* without argument; otherwise the body returns its text.
call_with_one_argument(name, tool_input) ==
    LET parameters == positional_parameters(name)
    IN  IF parameters.required > 1 \/ parameters.required + parameters.optional < 1
        THEN [raised |-> "TypeError", missing |-> parameters.required - 1]
        ELSE [returned |-> "str"]

\* the texts handed to the tools
InvokeInputs == ConversationMessages \cup {<<>>}

InitInvoke ==
    /\ args \in {[tool_input |-> m] : m \in InvokeInputs}
    /\ tool = "none"
    /\ result = NoResult
    /\ chat_history = <<>>

\* the agent runs one tool of the list on the text
InvokeTool ==
    /\ tool = "none"
    /\ \E n \in 1..Len(tools) :
          /\ tool' = tools[n]
          /\ result' = call_with_one_argument(tools[n], args.tool_input)
    /\ UNCHANGED <<args, chat_history>>

NextInvoke == InvokeTool

SpecInvoke == InitInvoke /\ [][NextInvoke]_vars

\* C26: every tool of the agent's list, invoked the way the agent invokes
\* tools, with exactly one string argument, returns a string and raises no
\* missing-argument error; this holds for all 36 tools of the list.
C26_OneStringArgument ==
    /\ Len(tools) = 36
    /\ tool # "none" =>
          /\ "raised" \notin DOMAIN result
          /\ result.returned = "str"

----------------------------------------------------------------------------
(* issue_instant_refund, escalate_to_human, check_traffic *)

RECURSIVE split(_, _)
\* s.split(',', maxsplit): cut at the first maxsplit commas
split(s, maxsplit) ==
    LET commas == {i \in 1..Len(s) : s[i] = ","}
    IN  IF maxsplit = 0 \/ commas = {}
        THEN <<s>>
        ELSE LET i == CHOOSE c \in commas : \A d \in commas : c <= d
             IN  <<SubSeq(s, 1, i - 1)>> \o split(SubSeq(s, i + 1, Len(s)), maxsplit - 1)

refund_error_text == <<"E","r","r","o","r",":"," ","P","l","e","a","s","e"," ","p","r","o","v","i","d","e"," ","r","e","f","u","n","d"," ","d","e","t","a","i","l","s"," ","a","s"," ","c","u","s","t","o","m","e","r","_","i","d",",","a","m","o","u","n","t",",","r","e","a","s","o","n">>

\* the definition at line 896, which rebinds the name defined at line 528:
\* unpacking into three names raises ValueError unless split gave three
\* parts, and the bare except returns the error text
issue_instant_refund(refund_details) ==
    LET parts == split(refund_details, 2)
    IN  IF Len(parts) # 3
        THEN [error |-> refund_error_text]
        ELSE [processed |-> "Instant refund processed",
              customer_id |-> parts[1], amount |-> parts[2], reason |-> parts[3]]

escalate_generic_text == <<"C","a","s","e"," ","e","s","c","a","l","a","t","e","d"," ","t","o"," ","h","u","m","a","n"," ","a","g","e","n","t"," ","t","e","a","m"," ","f","o","r"," ","s","p","e","c","i","a","l","i","z","e","d"," ","h","a","n","d","l","i","n","g",".">>

lit_high == <<"h","i","g","h">>

lit_medium == <<"m","e","d","i","u","m">>

\* the conditional expression inside the returned f-string
escalate_response_time(urgency) ==
    IF urgency = lit_high THEN "30 minutes"
    ELSE IF urgency = lit_medium THEN "2 hours"
    ELSE "24 hours"

\* a variant without the try / except around the unpacking
escalate_to_human_unguarded(escalation_request) ==
    LET parts == split(escalation_request, 2)
    IN  IF Len(parts) # 3
        THEN [raised |-> "ValueError"]
        ELSE [escalated |-> "Case escalated to human agent.",
              reason |-> parts[1], priority |-> parts[2],
              response_time |-> escalate_response_time(parts[2])]

escalate_to_human(escalation_request) ==
    LET parts == split(escalation_request, 2)
    IN  IF Len(parts) # 3
        THEN [escalated |-> escalate_generic_text]
        ELSE [escalated |-> "Case escalated to human agent.",
              reason |-> parts[1], priority |-> parts[2],
              response_time |-> escalate_response_time(parts[2])]

traffic_status_for == <<"T","r","a","f","f","i","c"," ","S","t","a","t","u","s"," ","f","o","r"," ">>

traffic_texts ==
    << <<":"," ","L","i","g","h","t"," ","t","r","a","f","f","i","c",","," ","n","o","r","m","a","l"," ","f","l","o","w","."," ","E","x","p","e","c","t","e","d"," ","d","e","l","i","v","e","r","y"," ","t","i","m","e"," ","o","n"," ","s","c","h","e","d","u","l","e",".">>,
       <<":"," ","M","o","d","e","r","a","t","e"," ","c","o","n","g","e","s","t","i","o","n"," ","d","e","t","e","c","t","e","d","."," ","+","5","-","8"," ","m","i","n","u","t","e","s"," ","d","e","l","a","y"," ","e","x","p","e","c","t","e","d",".">>,
       <<":"," ","H","e","a","v","y"," ","t","r","a","f","f","i","c"," ","d","u","e"," ","t","o"," ","c","o","n","s","t","r","u","c","t","i","o","n","."," ","+","1","5","-","2","0"," ","m","i","n","u","t","e","s"," ","d","e","l","a","y"," ","l","i","k","e","l","y",".">>,
       <<":"," ","S","e","v","e","r","e"," ","c","o","n","g","e","s","t","i","o","n"," ","-"," ","a","c","c","i","d","e","n","t"," ","r","e","p","o","r","t","e","d","."," ","+","2","5","-","3","0"," ","m","i","n","u","t","e","s"," ","d","e","l","a","y","."," ","R","e","r","o","u","t","i","n","g"," ","r","e","c","o","m","m","e","n","d","e","d",".">>,
       <<":"," ","R","o","a","d"," ","c","l","o","s","u","r","e"," ","i","n"," ","e","f","f","e","c","t","."," ","A","l","t","e","r","n","a","t","i","v","e"," ","r","o","u","t","e"," ","r","e","q","u","i","r","e","d","."," ","+","1","0","-","1","5"," ","m","i","n","u","t","e","s"," ","d","e","l","a","y",".">> >>

\* the list traffic_conditions, each text with the location in it
traffic_conditions(location) ==
    [n \in 1..Len(traffic_texts) |-> traffic_status_for \o location \o traffic_texts[n]]

lit_Heavy == <<"H","e","a","v","y">>

lit_Severe == <<"S","e","v","e","r","e">>

\* random.choice of the conditions; the recommendation tests the last element
\* of the list, traffic_conditions[-1]
check_traffic(location) ==
    LET conditions == traffic_conditions(location)
        last == conditions[Len(conditions)]
    IN  {[status |-> conditions[n],
          recommendation |-> IF IsSubstring(lit_Heavy, last) \/ IsSubstring(lit_Severe, last)
                             THEN "Consider alternative routes"
                             ELSE "Current route optimal"] :
            n \in 1..Len(conditions)}

RequestFields ==
    << <<"C","1">>,
       <<"1","0","0">>,
       <<"a","b","c">>,
       <<"h","i","g","h">>,
       <<"m","e","d","i","u","m">>,
       <<"l","a","t","e">>,
       <<"S","e","v","e","r","e"," ","S","t">> >>

\* the most comma-separated fields of a bounded request
MaxFields == 3

RECURSIVE RequestTexts(_)
\* the requests of at most n fields of RequestFields
RequestTexts(n) ==
    IF n = 0 THEN {<<>>}
    ELSE {IF Len(t) = 0 THEN RequestFields[f] ELSE t \o <<",">> \o RequestFields[f] :
              t \in RequestTexts(n - 1), f \in 1..Len(RequestFields)}
         \cup {<<>>}

InitRequests ==
    /\ args \in {[tool_input |-> m] : m \in RequestTexts(MaxFields)}
    /\ tool = "none"
    /\ result = NoResult
    /\ chat_history = <<>>

IssueInstantRefund ==
    /\ tool' = "issue_instant_refund"
    /\ result' = issue_instant_refund(args.tool_input)
    /\ UNCHANGED <<args, chat_history>>

EscalateToHuman ==
    /\ tool' = "escalate_to_human"
    /\ result' = escalate_to_human(args.tool_input)
    /\ UNCHANGED <<args, chat_history>>

CheckTraffic ==
    /\ tool' = "check_traffic"
    /\ result' \in check_traffic(args.tool_input)
    /\ UNCHANGED <<args, chat_history>>

NextRequests ==
    \/ tool = "none" /\ IssueInstantRefund
    \/ tool = "none" /\ EscalateToHuman
    \/ tool = "none" /\ CheckTraffic

SpecRequests == InitRequests /\ [][NextRequests]_vars

----------------------------------------------------------------------------
(* Properties of the requests *)

\* the positions of the commas of s
Commas(s) == {i \in 1..Len(s) : s[i] = ","}

\* the text between the first and the second comma of s, which has two
SecondField(s) ==
    LET first == CHOOSE c \in Commas(s) : \A d \in Commas(s) : c <= d
        rest == Commas(s) \ {first}
        second == CHOOSE c \in rest : \A d \in rest : c <= d
    IN  SubSeq(s, first + 1, second - 1)

\* s is a number written in digits
IsNumeric(s) == Len(s) > 0 /\ \A i \in 1..Len(s) : IsDigit(s[i])

\* C27: issue_instant_refund, as the agent calls it, reports a processed
\* refund only when the input has the form customer_id,amount,reason with a
\* numeric amount; with fewer than three fields or a non-numeric amount it
\* returns the error message and processes nothing.
C27_RefundInputValidated ==
    tool = "issue_instant_refund" =>
        LET wellFormed == /\ Cardinality(Commas(args.tool_input)) >= 2
                          /\ IsNumeric(SecondField(args.tool_input))
        IN  /\ wellFormed => "processed" \in DOMAIN result
            /\ ~wellFormed => /\ "processed" \notin DOMAIN result
                              /\ result.error = refund_error_text

\* C28: escalate_to_human is total: it raises for no input; with three
\* comma-separated fields reason,urgency,summary the response time is 30
\* minutes for urgency high, 2 hours for medium and 24 hours otherwise, and
\* with fewer fields the generic escalation message is returned.
C28_EscalationIsTotal ==
    tool = "escalate_to_human" =>
        /\ "raised" \notin DOMAIN result
        /\ IF Cardinality(Commas(args.tool_input)) >= 2
           THEN LET urgency == SecondField(args.tool_input)
                IN  /\ result.priority = urgency
                    /\ urgency = lit_high => result.response_time = "30 minutes"
                    /\ urgency = lit_medium => result.response_time = "2 hours"
                    /\ urgency \notin {lit_high, lit_medium}
                           => result.response_time = "24 hours"
           ELSE result.escalated = escalate_generic_text

HighUrgency == <<"l","a","t","e",",","h","i","g","h",",","a","b","c">>

\* the request "late,high,abc" has been escalated with a response time of 30
\* minutes
C28_Witness ==
    /\ tool = "escalate_to_human"
    /\ args.tool_input = HighUrgency
    /\ result.priority = lit_high
    /\ result.response_time = "30 minutes"

HeavyTraffic == <<":"," ","H","e","a","v","y"," ","t","r","a","f","f","i","c">>

SevereCongestion == <<":"," ","S","e","v","e","r","e"," ","c","o","n","g","e","s","t","i","o","n">>

\* C29: the recommendation of check_traffic matches the condition it reports:
\* it is "Consider alternative routes" when the status is the heavy-traffic or
\* the severe-congestion condition and "Current route optimal" for the others.
C29_RecommendationMatchesStatus ==
    tool = "check_traffic" =>
        LET congested == \/ IsSubstring(HeavyTraffic, result.status)
                         \/ IsSubstring(SevereCongestion, result.status)
        IN  /\ congested => result.recommendation = "Consider alternative routes"
            /\ ~congested => result.recommendation = "Current route optimal"

----------------------------------------------------------------------------
(* handle_edge_cases and generate_natural_response *)

\* the two emoji of humor_indicators, each one character
FACE_WITH_TEARS_OF_JOY == "U+1F602"

SMILING_FACE_WITH_SWEAT == "U+1F605"

humor_words ==
    << <<"l","o","l">>,
       <<"h","a","h","a">>,
       <<"f","u","n","n","y">>,
       <<"j","o","k","e">>,
       <<"k","i","d","d","i","n","g">> >>

\* humor_indicators: the five words and the two emoji
humor_indicators ==
    SubSeq(humor_words, 1, 2)
        \o << <<FACE_WITH_TEARS_OF_JOY>>, <<SMILING_FACE_WITH_SWEAT>> >>
        \o SubSeq(humor_words, 3, 5)

slang_map ==
    << [slang |-> <<"f","o","o","d"," ","i","s"," ","t","r","a","s","h">>,
        meaning |-> <<"p","o","o","r"," ","q","u","a","l","i","t","y"," ","f","o","o","d">>],
       [slang |-> <<"d","r","i","v","e","r"," ","i","s"," ","s","u","s">>,
        meaning |-> <<"s","u","s","p","i","c","i","o","u","s"," ","d","r","i","v","e","r"," ","b","e","h","a","v","i","o","r">>],
       [slang |-> <<"t","h","i","s"," ","i","s"," ","c","a","p">>,
        meaning |-> <<"t","h","i","s"," ","s","e","e","m","s"," ","w","r","o","n","g">>],
       [slang |-> <<"n","o"," ","c","a","p">>,
        meaning |-> <<"h","o","n","e","s","t","l","y">>],
       [slang |-> <<"b","e","t">>,
        meaning |-> <<"o","k","a","y","/","s","u","r","e">>],
       [slang |-> <<"f","i","r","e"," ","f","o","o","d">>,
        meaning |-> <<"e","x","c","e","l","l","e","n","t"," ","f","o","o","d">>],
       [slang |-> <<"m","i","d">>,
        meaning |-> <<"m","e","d","i","o","c","r","e","/","a","v","e","r","a","g","e">>],
       [slang |-> <<"l","o","w","k","e","y">>,
        meaning |-> <<"s","o","m","e","w","h","a","t","/","k","i","n","d"," ","o","f">>],
       [slang |-> <<"h","i","g","h","k","e","y">>,
        meaning |-> <<"v","e","r","y","/","r","e","a","l","l","y">>],
       [slang |-> <<"s","l","a","p","s">>,
        meaning |-> <<"r","e","a","l","l","y"," ","g","o","o","d">>],
       [slang |-> <<"b","u","s","s","i","n">>,
        meaning |-> <<"r","e","a","l","l","y"," ","g","o","o","d","/","d","e","l","i","c","i","o","u","s">>],
       [slang |-> <<"p","e","r","i","o","d","t">>,
        meaning |-> <<"e","n","d"," ","o","f"," ","d","i","s","c","u","s","s","i","o","n">>] >>

RECURSIVE replace(_, _, _)
\* s.replace(old, new), old not empty
replace(s, old, new) ==
    IF Len(s) < Len(old) THEN s
    ELSE IF SubSeq(s, 1, Len(old)) = old
    THEN new \o replace(SubSeq(s, Len(old) + 1, Len(s)), old, new)
    ELSE <<s[1]>> \o replace(Tail(s), old, new)

RECURSIVE translated_message(_, _)
\* the loop over slang_map.items(), after its first n entries
translated_message(message_lower, n) ==
    IF n = 0 THEN message_lower
    ELSE LET before == translated_message(message_lower, n - 1)
         IN  IF IsSubstring(slang_map[n].slang, message_lower)
             THEN replace(before, slang_map[n].slang, slang_map[n].meaning)
             ELSE before

\* slang_found after the loop
slang_found(message_lower) ==
    LET Found(entry) == IsSubstring(entry.slang, message_lower)
        found == SelectSeq(slang_map, Found)
    IN  [n \in 1..Len(found) |-> found[n].slang]

\* len(message.split()): the runs of characters between blanks
word_count(message) ==
    Cardinality({i \in 1..Len(message) :
                    message[i] # " " /\ (i = 1 \/ message[i - 1] = " ")})

vague_indicators ==
    << <<"b","a","d">>,
       <<"t","e","r","r","i","b","l","e">>,
       <<"a","w","f","u","l">>,
       <<"h","o","r","r","i","b","l","e">>,
       <<"n","o","t"," ","g","o","o","d">>,
       <<"d","i","s","a","p","p","o","i","n","t","i","n","g">> >>

question_words ==
    << <<"w","h","a","t">>,
       <<"w","h","e","n">>,
       <<"w","h","e","r","e">>,
       <<"h","o","w">>,
       <<"w","h","y">> >>

\* the dictionary handle_edge_cases returns
handle_edge_cases(message) ==
    LET message_lower == Lower(message)
        found == slang_found(message_lower)
    IN  IF AnyIn(humor_indicators, message_lower)
        THEN [type |-> "humor",
              response_style |-> "playful",
              suggested_tone |-> "Match their energy while being helpful"]
        ELSE [original_message |-> message,
              translated_message |-> translated_message(message_lower, Len(slang_map)),
              slang_detected |-> found,
              is_vague |-> AnyIn(vague_indicators, message_lower) /\ word_count(message) < 8,
              is_incomplete |-> word_count(message) < 5 \/ AnyIn(question_words, message_lower),
              has_humor |-> \E n \in 1..Len(humor_indicators) :
                                IsSubstring(humor_indicators[n], message_lower),
              response_style |-> IF Len(found) > 0 THEN "casual" ELSE "professional"]

\* the keys of casual_intros
casual_intros_keys == {"spilled", "wrong_order", "late_delivery", "cold_food", "poor_quality"}

\* the keys of playful_responses
playful_responses_keys == {"spilled", "wrong_order", "late_delivery"}

\* The response is named by its branch and by the key or the index of the
\* text chosen in it. Subscripting the dictionary with a key it lacks raises
\* KeyError.
generate_natural_response(issue_type, edge_case_info) ==
    IF "response_style" \notin DOMAIN edge_case_info
    THEN {[raised |-> "KeyError", key |-> "response_style"]}
    ELSE IF edge_case_info.response_style = "casual"
    THEN {[branch |-> "casual",
           text |-> IF issue_type \in casual_intros_keys THEN issue_type ELSE "default"]}
    ELSE IF "is_vague" \notin DOMAIN edge_case_info
    THEN {[raised |-> "KeyError", key |-> "is_vague"]}
    ELSE IF edge_case_info.is_vague
    THEN {[branch |-> "vague", text |-> n] : n \in 1..3}
    ELSE IF "has_humor" \notin DOMAIN edge_case_info
    THEN {[raised |-> "KeyError", key |-> "has_humor"]}
    ELSE IF edge_case_info.has_humor
    THEN {[branch |-> "playful",
           text |-> IF issue_type \in playful_responses_keys THEN issue_type ELSE "default"]}
    ELSE {[branch |-> "professional", text |-> "default"]}

EdgeWords ==
    << <<"l","o","l">>,
       <<"f","o","o","d"," ","i","s"," ","t","r","a","s","h">>,
       <<"b","a","d">>,
       <<"w","h","e","r","e">>,
       <<"s","p","i","l","l","e","d">>,
       <<"m","i","d">> >>

LongComplaint == <<"t","h","e"," ","f","o","o","d"," ","w","a","s"," ","r","e","a","l","l","y"," ","b","a","d"," ","a","n","d"," ","I"," ","a","m"," ","v","e","r","y"," ","u","n","h","a","p","p","y">>

FunnyMessage == <<"l","o","l"," ","t","h","e"," ","f","o","o","d"," ","s","p","i","l","l","e","d">>

\* the most words of EdgeWords in a bounded message
MaxEdgeWords == 2

\* every message of at most MaxEdgeWords entries of EdgeWords, and two
\* sentences
EdgeMessages ==
    {Join([k \in 1..Len(ws) |-> EdgeWords[ws[k]]]) :
        ws \in UNION {[1..n -> 1..Len(EdgeWords)] : n \in 0..MaxEdgeWords}}
    \cup {LongComplaint, FunnyMessage}

InitEdge ==
    /\ args \in {[message |-> m, issue_type |-> t] :
                    m \in EdgeMessages, t \in {"spilled", "cold_food", "other"}}
    /\ tool = "none"
    /\ result = NoResult
    /\ chat_history = <<>>

HandleEdgeCases ==
    /\ tool = "none"
    /\ tool' = "handle_edge_cases"
    /\ result' = handle_edge_cases(args.message)
    /\ UNCHANGED <<args, chat_history>>

\* the dictionary just returned is passed on
GenerateNaturalResponse ==
    /\ tool = "handle_edge_cases"
    /\ tool' = "generate_natural_response"
    /\ result' \in generate_natural_response(args.issue_type, result)
    /\ UNCHANGED <<args, chat_history>>

NextEdge ==
    \/ HandleEdgeCases
    \/ GenerateNaturalResponse

SpecEdge == InitEdge /\ [][NextEdge]_vars

----------------------------------------------------------------------------
(* Properties of the edge cases *)

\* the playful branch is never the one that answers
PlayfulNeverAnswers ==
    tool = "generate_natural_response" =>
        ("branch" \in DOMAIN result => result.branch # "playful")

\* C30: generate_natural_response accepts every dictionary that
\* handle_edge_cases returns: for every message, a humorous one included, it
\* returns a response and raises no missing-key error.
C30_EdgeCaseDictionaryAccepted ==
    tool = "generate_natural_response" =>
        /\ "raised" \notin DOMAIN result
        /\ result.branch \in {"casual", "vague", "playful", "professional"}

============================================================================
